---- MODULE Spec2Model ----
(***************************************************************************)
(* Debug adapter for `perl -d`: the process driver (PerlProcess), the DAP  *)
(* facade (PerlDebugSession) and the perl child they talk to.              *)
(*                                                                         *)
(* JavaScript runs one job at a time.  A macrotask (a client request, a    *)
(* data or close event of the child, a timer) runs to completion and then  *)
(* the microtask queue (promise continuations) is drained before the next  *)
(* macrotask starts.  Every action below is one such job; the macrotask    *)
(* actions are guarded by MicrotasksIdle.                                  *)
(***************************************************************************)
EXTENDS Integers, Sequences, FiniteSets, TLC

VARIABLES
    \* ---- PerlProcess (driver) ----
    chain,             \* the tasks chained on _lock and not yet settled, oldest first
    waitingResolvers,  \* ids of the commands whose promise waits for a prompt
    buffer,            \* output accumulated since the last detected prompt
    \* ---- the perl -d child ----
    child,             \* "none" | "running" | "killed" | "closed"
    stdin,             \* commands written to the child and not yet answered
    banner,            \* TRUE once the start-up banner and first prompt are printed
    childHalf,         \* TRUE while a reply is printed up to the middle of its prompt
    pos,               \* line of the top stack frame of the debuggee (0: no frame)
    dbline,            \* lines with a `b` written to the child and no `B` written since
    \* ---- PerlDebugSession (facade) ----
    perlProcess,       \* TRUE when this.perlProcess is defined
    registered,        \* TRUE once the driver's event listeners are registered
    breakpoints,       \* path -> [has: an entry is stored, bps: the stored list]
    shouldStop,
    hasPassedStopOnEntry,
    launch,            \* the launch request in progress
    handlers,          \* the async request handlers suspended at an await
    tracedOnce,        \* TRUE once a stackTrace request has asked the driver for frames
    \* ---- bookkeeping ----
    nInvoked,          \* commands handed to _sync so far (ids are given in call order)
    nWritten,          \* commands written to stdin so far
    nResolved,         \* command promises resolved so far
    nCalls,            \* driver operations / client requests issued so far
    fx,                \* the ordered effects of the job that just ran
    \* ---- Analyzer and PerlServer (language server) ----
    index,             \* the four maps of the Analyzer, keyed by URI
    saved,             \* the content of .vscode/function_map.zip
    scan,              \* analyzeFromWorkspace, the scan started at initialization
    docs               \* the open documents and their pending change handlers

driverVars == <<chain, waitingResolvers, buffer>>
childVars  == <<child, stdin, banner, childHalf, pos, dbline>>
facadeVars == <<perlProcess, registered, breakpoints, shouldStop, hasPassedStopOnEntry,
                launch, handlers, tracedOnce>>
countVars  == <<nInvoked, nWritten, nResolved, nCalls>>
analyzerVars == <<index, saved, scan, docs>>
vars == <<driverVars, childVars, facadeVars, countVars, fx, analyzerVars>>

----------------------------------------------------------------------------
\* Bounds of the model.
MaxCalls  == 2    \* driver operations invoked directly in one run
MaxRequests == 3  \* client requests in one session (those that reach the driver)
MaxBreakpoints == 1  \* breakpoints in one setBreakPoints request
MaxBuffer == 1    \* chunks of program output between two prompts

Lines == {1, 2}       \* the lines of the debugged file
Paths == {"a.pl"}
Absent == [has |-> FALSE, bps |-> <<>>]
Positions == {0} \cup Lines
Resuming == {"c", "n", "s", "o", "R"}

\* Lists of distinct lines, as a setBreakPoints request or a delete carries them.
LineLists == {<<>>} \cup {<<l>> : l \in Lines}
             \cup {<<l, m>> : l \in Lines, m \in Lines}

\* The breakpoint lines one setBreakPoints request carries.
ClientLists == {ls \in LineLists : Len(ls) <= MaxBreakpoints}

Last(s) == s[Len(s)]
Remove(s, i) == SubSeq(s, 1, i - 1) \o SubSeq(s, i + 1, Len(s))

----------------------------------------------------------------------------
\* Effects, in the order the code produces them within one job.
Fx(k, a, n) == [k |-> k, a |-> a, n |-> n]
EmitFx(ev)      == Fx("emit", ev, 0)
SendFx(msg)     == Fx("send", msg, 0)
WriteFx(c)      == Fx("write", c.name, c.id)
ResolveFx(id)   == Fx("resolve", "", id)
StepFx(what)    == Fx("step", what, 0)
PromptFx        == Fx("prompt", "", 0)
\* The top frame a stackTrace handler reads, and whether the handler is the
\* first of the session.
TopFx(first, line) == Fx("top", IF first THEN "first" ELSE "later", line)
\* this.breakpoints.set(path, breakpoints) by handler h.
StoreFx(path, h) == Fx("store", path, h)

\* Position of the first effect equal to e in a trace (0 when absent).
Pos(tr, e) ==
    IF \E i \in 1..Len(tr) : tr[i] = e
    THEN CHOOSE i \in 1..Len(tr) : tr[i] = e /\ \A j \in 1..(i - 1) : tr[j] # e
    ELSE 0
Has(tr, e) == Pos(tr, e) # 0

----------------------------------------------------------------------------
\* Output of the child, cut into the chunks the stream delivers.
\*   "text"  program output, no prompt in it
\*   "reply" a whole reply, ending in the prompt `DB<n> `
\*   "head"  a reply cut inside its prompt: ends in `DB<`
\*   "tail"  the rest of that prompt: `n> `
\* re/name: the command answered (0/"banner" for the start-up banner);
\* top: line of the top frame a `T` reply lists (0: no frame);
\* nb: the reply says `not breakable`.
Chunk(k, c, top, nb) == [k |-> k, re |-> c.id, name |-> c.name, top |-> top, nb |-> nb]
TextChunk == [k |-> "text", re |-> 0, name |-> "", top |-> 0, nb |-> FALSE]
TailChunk == [k |-> "tail", re |-> 0, name |-> "", top |-> 0, nb |-> FALSE]
BannerCmd == [id |-> 0, name |-> "banner", line |-> 0]

\* readyPrompt = /DB<\d+> $/ : the text ends with a whole prompt.
readyPrompt(text) ==
    /\ Len(text) > 0
    /\ \/ Last(text).k = "reply"
       \/ /\ Last(text).k = "tail"
          /\ Len(text) > 1
          /\ text[Len(text) - 1].k = "head"

\* An output string, reduced to what its readers look at: whether it is a
\* string at all, the replies it holds, the frame lines a stack trace parser
\* finds in it and whether it says `not breakable`.
IsReply(ch) == ch.k \in {"reply", "head"}
IsFrame(ch) == IsReply(ch) /\ ch.name = "T" /\ ch.top # 0
Output(text) ==
    LET rs == SelectSeq(text, IsReply)
        fs == SelectSeq(text, IsFrame)
    IN  [any |-> TRUE,
         re |-> [i \in 1..Len(rs) |-> rs[i].re],
         frames |-> [i \in 1..Len(fs) |-> fs[i].top],
         nb |-> \E i \in 1..Len(text) : text[i].nb]
Undefined == [any |-> FALSE, re |-> <<>>, frames |-> <<>>, nb |-> FALSE]

\* The replies the child can give to command c: `T` lists the frames of
\* the current position, `b` may answer that the line is not breakable.
Replies(c, k) ==
    CASE c.name = "T" -> {Chunk(k, c, pos, FALSE)}
      [] c.name = "b" -> {Chunk(k, c, 0, nb) : nb \in BOOLEAN}
      [] OTHER        -> {Chunk(k, c, 0, FALSE)}

----------------------------------------------------------------------------
\* A `stopped` listener that sends its event for every prompt.
AlwaysArmed(ss) == TRUE

\* if (this.shouldStop) in the `stopped` listener.
Armed(ss) == ss

\* PerlDebugSession: the listeners registered in launchRequest.  Given the
\* event and the current shouldStop, the messages sent and the new shouldStop.
Listeners(ev, ss) ==
    CASE ~registered ->
           [fx |-> <<>>, shouldStop |-> ss]
      [] ev \in {"stderr.output", "stdout.output"} ->
           [fx |-> <<SendFx("OutputEvent")>>, shouldStop |-> ss]
      [] ev = "stopped" ->
           IF Armed(ss)
                 THEN [fx |-> <<SendFx("StoppedEvent:breakpoint")>>, shouldStop |-> FALSE]
                 ELSE [fx |-> <<>>, shouldStop |-> ss]
      [] ev = "continued" ->
           [fx |-> <<SendFx("ContinuedEvent")>>, shouldStop |-> TRUE]
      [] ev = "stopOnStep" ->
           [fx |-> <<SendFx("StoppedEvent:step")>>, shouldStop |-> FALSE]
      [] ev = "terminated" ->
           [fx |-> <<SendFx("TerminatedEvent")>>, shouldStop |-> ss]
      [] OTHER ->
           [fx |-> <<>>, shouldStop |-> ss]

\* EventEmitter.emit: the listeners run synchronously, inside the emit.
Emit(ev, ss) ==
    LET l == Listeners(ev, ss)
    IN  [fx |-> <<EmitFx(ev)>> \o l.fx, shouldStop |-> l.shouldStop]
NoEmit(ss) == [fx |-> <<>>, shouldStop |-> ss]

----------------------------------------------------------------------------
\* PerlProcess: the public operations.  Each is the body handed to _sync:
\* the event it emits on entry, the commands it sends one after the other
\* (each awaited), and whether it returns the last output.
Cmd(name, line) == [id |-> 0, name |-> name, line |-> line]
Body(op, pre, cmds, ret) == [op |-> op, pre |-> pre, cmds |-> cmds, ret |-> ret]

autoFlushStdOut == Body("autoFlushStdOut", "none", <<Cmd("$| = 1;", 0)>>, FALSE)
setTty          == Body("setTty", "none", <<Cmd("o TTY=", 0)>>, FALSE)
trace           == Body("trace", "none", <<Cmd("T", 0)>>, TRUE)
setBreakpoint(line) == Body("setBreakpoint", "none", <<Cmd("b", line)>>, TRUE)
deleteBreakpoints(lines) ==
    Body("deleteBreakpoints", "none", [i \in 1..Len(lines) |-> Cmd("B", lines[i])], FALSE)
continue        == Body("continue", "continued", <<Cmd("c", 0)>>, FALSE)
next            == Body("next", "stopOnStep", <<Cmd("n", 0)>>, FALSE)
singleStep      == Body("singleStep", "stopOnStep", <<Cmd("s", 0)>>, FALSE)
stepOut         == Body("stepOut", "stopOnStep", <<Cmd("o", 0)>>, FALSE)
restart         == Body("restart", "none", <<Cmd("R", 0)>>, FALSE)
getLocalScopedVariables  == Body("getLocalScopedVariables", "none", <<Cmd("y", 0)>>, TRUE)
getGlobalScopedVariables == Body("getGlobalScopedVariables", "none", <<Cmd("V", 0)>>, TRUE)
evaluate        == Body("evaluate", "none", <<Cmd("x", 0)>>, TRUE)

PublicOps ==
    {autoFlushStdOut, setTty, trace, continue, next, singleStep, stepOut, restart,
     getLocalScopedVariables, getGlobalScopedVariables, evaluate}
    \cup {setBreakpoint(l) : l \in Lines}
    \cup {deleteBreakpoints(ls) : ls \in LineLists}

\* The task of one call: the body, its commands numbered in call order,
\* and the handler (0: none) that awaits the returned promise.
NewTask(body, hid, n) ==
    [op |-> body.op, pre |-> body.pre, ret |-> body.ret,
     cmds |-> [i \in 1..Len(body.cmds) |->
                 [id |-> n + i, name |-> body.cmds[i].name, line |-> body.cmds[i].line]],
     st |-> "queued", out |-> Undefined, hid |-> hid, chained |-> FALSE]

\* A _sync that runs the task without waiting for the lock.
SyncUnchained(ch, task) == Append(ch, task)

\* _sync: this._lock = this._lock.then(task, task).  The task runs only once
\* every task chained before it has settled.
_sync(ch, task) == Append(ch, [task EXCEPT !.chained = TRUE])

\* The task at position i may run now.
Startable(i) == chain[i].st = "queued" /\ (chain[i].chained => i = 1)

TaskReady == \E i \in 1..Len(chain) : chain[i].st = "ready"
TaskStartable == \E i \in 1..Len(chain) : Startable(i)
HandlerRunnable ==
    \/ \E h \in 1..Len(handlers) : handlers[h].st = "run"
    \/ launch.pc = "woken"
MicrotasksIdle == ~TaskReady /\ ~TaskStartable /\ ~HandlerRunnable

\* The promise of task t settles with value v: it leaves the chain, and the
\* handler awaiting it (if any) becomes runnable with that value.
Settled(hs, t, v) ==
    IF t.hid = 0 THEN hs
    ELSE [hs EXCEPT ![t.hid].st = "run", ![t.hid].res = IF t.ret THEN v ELSE Undefined]

\* The command written on behalf of handler hid is noted on its record.
Logged(hs, hid, c) ==
    IF hid = 0 \/ hs[hid].kind # "setBreakpoints" THEN hs
    ELSE [hs EXCEPT ![hid].sent = Append(@, c)]

\* process.stdin.write: the command reaches the pipe of a running child.
Written(c) == IF child = "running" THEN Append(stdin, c) ELSE stdin

\* The breakpoints of the child once command c is written to it: `b` adds
\* its line, `B` removes its line.
DblineAfter(c) ==
    IF child # "running" THEN dbline
    ELSE IF c.name = "b" THEN dbline \cup {c.line}
    ELSE IF c.name = "B" THEN dbline \ {c.line}
    ELSE dbline

\* A task starts (the then-callback of _lock) or resumes after its await:
\* it emits its entry event when starting, then either sends its next
\* command (_sendCommand: push the resolver, write) or returns.
RunTask(i, starting) ==
    LET t    == chain[i]
        rest == IF starting THEN t.cmds ELSE Tail(t.cmds)
        e    == IF starting /\ t.pre # "none" THEN Emit(t.pre, shouldStop)
                ELSE NoEmit(shouldStop)
    IN  /\ shouldStop' = e.shouldStop
        /\ IF rest = <<>>
           THEN /\ chain' = Remove(chain, i)
                /\ handlers' = Settled(handlers, t, t.out)
                /\ fx' = e.fx
                /\ UNCHANGED <<waitingResolvers, stdin, nWritten, dbline>>
           ELSE /\ chain' = [chain EXCEPT ![i].cmds = rest, ![i].st = "waiting"]
                /\ waitingResolvers' = Append(waitingResolvers, Head(rest).id)
                /\ stdin' = Written(Head(rest))
                /\ dbline' = DblineAfter(Head(rest))
                /\ nWritten' = nWritten + 1
                /\ fx' = e.fx \o <<WriteFx(Head(rest))>>
                /\ handlers' = Logged(handlers, t.hid, Head(rest))
        /\ UNCHANGED <<tracedOnce, buffer, child, banner, childHalf, pos, perlProcess, registered,
                       breakpoints, hasPassedStopOnEntry, launch, nInvoked, nResolved,
                       nCalls>>
        /\ UNCHANGED analyzerVars

TaskResume ==
    /\ TaskReady
    /\ LET i == CHOOSE j \in 1..Len(chain) :
                  chain[j].st = "ready" /\ \A k \in 1..(j - 1) : chain[k].st # "ready"
       IN  RunTask(i, FALSE)

TaskStart ==
    /\ ~TaskReady
    /\ TaskStartable
    /\ LET i == CHOOSE j \in 1..Len(chain) :
                  Startable(j) /\ \A k \in 1..(j - 1) : ~Startable(k)
       IN  RunTask(i, TRUE)

----------------------------------------------------------------------------
\* _processBuffer: on a prompt at the end of the buffer, the buffer is taken
\* as the output and cleared, and the oldest resolver (if any) gets it.
processBuffer(buf, ws) ==
    IF readyPrompt(buf)
    THEN [buffer |-> <<>>,
          resolved |-> IF ws # <<>> THEN <<Head(ws)>> ELSE <<>>,
          waiting |-> IF ws # <<>> THEN Tail(ws) ELSE ws,
          prompt |-> TRUE,
          output |-> Output(buf)]
    ELSE [buffer |-> buf, resolved |-> <<>>, waiting |-> ws, prompt |-> FALSE,
          output |-> Undefined]

\* resolve(output) on the task that awaits command id.
Resolve(ch, ids, output) ==
    [i \in 1..Len(ch) |->
        IF ids # <<>> /\ ch[i].st = "waiting" /\ Head(ch[i].cmds).id = ids[1]
        THEN [ch[i] EXCEPT !.st = "ready", !.out = output]
        ELSE ch[i]]

\* The 'data' listener of stdout / stderr, run on the chunk the child prints.
OnData(stream, chunk) ==
    LET pb == processBuffer(buffer \o <<chunk>>, waitingResolvers)
        e1 == Emit(stream \o ".output", shouldStop)
        e2 == IF readyPrompt(<<chunk>>) THEN Emit("stopped", e1.shouldStop)
              ELSE NoEmit(e1.shouldStop)
    IN  /\ buffer' = pb.buffer
        /\ waitingResolvers' = pb.waiting
        /\ chain' = Resolve(chain, pb.resolved, pb.output)
        /\ nResolved' = nResolved + Len(pb.resolved)
        /\ shouldStop' = e2.shouldStop
        /\ fx' = <<Fx("data", chunk.k, chunk.re)>>
                 \o (IF pb.prompt THEN <<PromptFx>> ELSE <<>>)
                 \o [i \in 1..Len(pb.resolved) |-> ResolveFx(pb.resolved[i])]
                 \o e1.fx \o e2.fx
        /\ UNCHANGED <<tracedOnce, child, perlProcess, registered, breakpoints, hasPassedStopOnEntry,
                       launch, handlers, nInvoked, nWritten, nCalls>>
        /\ UNCHANGED analyzerVars

\* The child prints program output (on stdout; the debugger talks on stderr).
ChildText ==
    /\ MicrotasksIdle
    /\ child = "running"
    /\ banner
    /\ Len(buffer) < MaxBuffer
    /\ OnData("stdout", TextChunk)
    /\ UNCHANGED <<stdin, banner, childHalf, pos, dbline>>

\* The child prints its banner, or the reply to the oldest unanswered
\* command, either whole or up to the middle of the prompt.
ChildReply ==
    /\ MicrotasksIdle
    /\ child = "running"
    /\ ~childHalf
    /\ ~banner \/ stdin # <<>>
    /\ LET c == IF banner THEN Head(stdin) ELSE BannerCmd
       IN  \E k \in {"reply", "head"} : \E chunk \in Replies(c, k) :
             /\ OnData("stderr", chunk)
             /\ childHalf' = (k = "head")
       /\ IF c.name \in Resuming THEN pos' \in Positions ELSE pos' = pos
    /\ banner' = TRUE
    /\ stdin' = IF banner THEN Tail(stdin) ELSE stdin
    /\ UNCHANGED dbline

\* The child prints the rest of a prompt it had started.
ChildPromptTail ==
    /\ MicrotasksIdle
    /\ child = "running"
    /\ childHalf
    /\ OnData("stderr", TailChunk)
    /\ childHalf' = FALSE
    /\ UNCHANGED <<stdin, banner, pos, dbline>>

\* PerlProcess.stop: stdin.end() and kill().
stop ==
    /\ MicrotasksIdle
    /\ child = "running"
    /\ nCalls < MaxCalls
    /\ nCalls' = nCalls + 1
    /\ child' = "killed"
    /\ stdin' = <<>>
    /\ fx' = <<StepFx("kill")>>
    /\ UNCHANGED <<driverVars, banner, childHalf, pos, dbline, facadeVars, nInvoked, nWritten,
                   nResolved>>
    /\ UNCHANGED analyzerVars

\* The 'close' listener of the child: it logs the exit code.
OnClose ==
    /\ MicrotasksIdle
    /\ child \in {"running", "killed"}
    /\ child' = "closed"
    /\ stdin' = <<>>
    /\ fx' = <<StepFx("close"), StepFx("console.log")>>
    /\ UNCHANGED <<driverVars, banner, childHalf, pos, dbline, facadeVars, countVars>>
    /\ UNCHANGED analyzerVars

\* A caller invokes a public operation of the driver.
Call ==
    /\ MicrotasksIdle
    /\ nCalls < MaxCalls
    /\ \E body \in PublicOps :
         /\ chain' = _sync(chain, NewTask(body, 0, nInvoked))
         /\ nInvoked' = nInvoked + Len(body.cmds)
         /\ fx' = <<StepFx(body.op)>>
    /\ nCalls' = nCalls + 1
    /\ UNCHANGED <<waitingResolvers, buffer, childVars, facadeVars, nWritten, nResolved>>
    /\ UNCHANGED analyzerVars

\* ctrlC chained on the lock like the other public operations.
ctrlCSynced ==
    /\ MicrotasksIdle
    /\ perlProcess
    /\ nCalls < MaxCalls
    /\ nCalls' = nCalls + 1
    /\ chain' = _sync(chain, NewTask(Body("ctrlC", "paused", <<>>, FALSE), 0, nInvoked))
    /\ fx' = <<StepFx("ctrlC")>>
    /\ UNCHANGED <<waitingResolvers, buffer, childVars, facadeVars, nInvoked, nWritten,
                   nResolved>>
    /\ UNCHANGED analyzerVars

\* PerlProcess.ctrlC: SIGINT to the process group of the child, to the child
\* itself when that throws, then emit('paused').  The body is not handed to
\* _sync.  What the debugger prints when interrupted is a reply of the child
\* like any other.
ctrlC ==
    /\ MicrotasksIdle
    /\ perlProcess
    /\ nCalls < MaxCalls
    /\ nCalls' = nCalls + 1
    /\ LET e == Emit("paused", shouldStop)
       IN  /\ shouldStop' = e.shouldStop
           /\ \E group \in BOOLEAN :
                fx' = <<StepFx("ctrlC")>>
                      \o (IF group THEN <<Fx("kill", "group", 0)>>
                          ELSE <<Fx("kill", "group", 1), Fx("kill", "child", 0)>>)
                      \o e.fx
    /\ UNCHANGED <<driverVars, childVars, perlProcess, registered, breakpoints,
                   hasPassedStopOnEntry, launch, handlers, tracedOnce, nInvoked, nWritten,
                   nResolved>>
    /\ UNCHANGED analyzerVars

----------------------------------------------------------------------------
\* PerlDebugSession: the request handlers.

NoLaunch == [pc |-> "idle", program |-> FALSE, stopOnEntry |-> FALSE, by |-> ""]

\* An async handler suspended at an await: what it awaits (st "await": a
\* driver promise; "run": its continuation is queued), the value it resumes
\* with, and its local variables.  For a setBreakPoints handler the record
\* also keeps the lines of the request (req), the lines whose deletion it
\* asked of the driver (del), the commands written to the child on its
\* behalf so far (sent) and the id of the `b` command it awaits (cmd, 0 when
\* there was no driver to send it).
Handler(kind, phase, path, lines, acc) ==
    [kind |-> kind, st |-> "run", res |-> Undefined, phase |-> phase, path |-> path,
     lines |-> lines, acc |-> acc, first |-> FALSE, req |-> <<>>, del |-> <<>>,
     sent |-> <<>>, cmd |-> 0]
Done == [kind |-> "done", st |-> "done", res |-> Undefined, phase |-> "", path |-> "",
         lines |-> <<>>, acc |-> <<>>, first |-> FALSE, req |-> <<>>, del |-> <<>>,
         sent |-> <<>>, cmd |-> 0]

FreeSlot(hs) ==
    IF \E h \in 1..Len(hs) : hs[h].kind = "done"
    THEN CHOOSE h \in 1..Len(hs) : hs[h].kind = "done" /\ \A g \in 1..(h - 1) : hs[g].kind # "done"
    ELSE Len(hs) + 1
Put(hs, h, rec) == IF h > Len(hs) THEN Append(hs, rec) ELSE [hs EXCEPT ![h] = rec]

\* Handler h has returned: its slot is free again.
RECURSIVE Trim(_)
Trim(hs) == IF hs # <<>> /\ Last(hs).kind = "done" THEN Trim(SubSeq(hs, 1, Len(hs) - 1)) ELSE hs
Returned(hs, h) == Trim([hs EXCEPT ![h] = Done])

\* `await this.perlProcess?.op(...)` in handler h: with a driver the call goes
\* through _sync and h waits for its promise; without one h awaits undefined.
AwaitOp(h, rec, body) ==
    IF perlProcess
    THEN /\ chain' = _sync(chain, NewTask(body, h, nInvoked))
         /\ nInvoked' = nInvoked + Len(body.cmds)
         /\ handlers' = Put(handlers, h, [rec EXCEPT !.st = "await", !.res = Undefined])
    ELSE /\ handlers' = Put(handlers, h, [rec EXCEPT !.st = "run", !.res = Undefined])
         /\ UNCHANGED <<chain, nInvoked>>

\* `this.perlProcess?.op()` not awaited.
FireOp(body) ==
    IF perlProcess
    THEN /\ chain' = _sync(chain, NewTask(body, 0, nInvoked))
         /\ nInvoked' = nInvoked + Len(body.cmds)
    ELSE UNCHANGED <<chain, nInvoked>>

\* A request of the client arrives.  The requests that reach the driver or
\* the breakpoint table are counted against MaxRequests.
Request(name) ==
    /\ MicrotasksIdle
    /\ IF name \in {"initialize", "configurationDone", "launch"}
       THEN nCalls' = nCalls
       ELSE nCalls < MaxRequests /\ nCalls' = nCalls + 1

\* An initializeRequest that ends with sendEvent(new InitializedEvent()).
initializeRequestThenInitialized ==
    /\ Request("initialize")
    /\ launch.pc = "idle" /\ child = "none" /\ nCalls = 0 /\ fx = <<>>
    /\ fx' = <<StepFx("initializeRequest"), SendFx("response:initialize"),
               SendFx("InitializedEvent")>>
    /\ UNCHANGED <<driverVars, childVars, facadeVars, nInvoked, nWritten, nResolved>>
    /\ UNCHANGED analyzerVars

\* initializeRequest: the capabilities are sent; InitializedEvent is not.
\* (The client sends it first, before anything else.)
initializeRequest ==
    /\ Request("initialize")
    /\ launch.pc = "idle" /\ child = "none" /\ nCalls = 0 /\ fx = <<>>
    /\ fx' = <<StepFx("initializeRequest"), SendFx("response:initialize")>>
    /\ UNCHANGED <<driverVars, childVars, facadeVars, nInvoked, nWritten, nResolved>>
    /\ UNCHANGED analyzerVars

\* configurationDoneRequest: the response, then _configurationDone.notify(),
\* which wakes a launchRequest waiting on the gate (and is lost otherwise).
configurationDoneRequest ==
    /\ Request("configurationDone")
    /\ fx' = <<StepFx("configurationDoneRequest"), SendFx("response:configurationDone")>>
    /\ launch' = IF launch.pc = "waiting"
                 THEN [launch EXCEPT !.pc = "woken", !.by = "notify"]
                 ELSE launch
    /\ UNCHANGED <<tracedOnce, driverVars, childVars, perlProcess, registered, breakpoints, shouldStop,
                   hasPassedStopOnEntry, handlers, nInvoked, nWritten, nResolved>>
    /\ UNCHANGED analyzerVars

\* launchRequest up to its await: hasPassedStopOnEntry is set and the handler
\* waits on the configuration gate, with a timer of ConfigurationWait ms.
\* (One debuggee per session: the client sends no launch after a spawn.)
ConfigurationWait == 1000
launchRequest ==
    /\ Request("launch")
    /\ launch.pc = "idle"
    /\ child = "none"
    /\ \E program \in BOOLEAN, stopOnEntry \in BOOLEAN :
         /\ launch' = [pc |-> "waiting", program |-> program, stopOnEntry |-> stopOnEntry,
                       by |-> ""]
         /\ hasPassedStopOnEntry' = stopOnEntry
    /\ fx' = <<StepFx("launchRequest"), StepFx("wait")>>
    /\ UNCHANGED <<tracedOnce, driverVars, childVars, perlProcess, registered, breakpoints, shouldStop,
                   handlers, nInvoked, nWritten, nResolved>>
    /\ UNCHANGED analyzerVars

\* A wait() that arms no timer.
TimerNever(ms) == FALSE

\* Subject.wait(ms) arms a timer when ms is given.
TimerArmed(ms) == ms > 0

\* The timer of the gate fires.
GateTimeout ==
    /\ MicrotasksIdle
    /\ launch.pc = "waiting"
    /\ TimerArmed(ConfigurationWait)
    /\ launch' = [launch EXCEPT !.pc = "woken", !.by = "timeout"]
    /\ fx' = <<StepFx("timeout")>>
    /\ UNCHANGED <<tracedOnce, driverVars, childVars, perlProcess, registered, breakpoints, shouldStop,
                   hasPassedStopOnEntry, handlers, countVars>>
    /\ UNCHANGED analyzerVars

\* A program check that lets every launch through.
ProgramNeverMissing(program) == FALSE

\* if (!program)
ProgramMissing(program) == ~program

NoProgram == SendFx("error:1001:No program specified to debug.")

\* launchRequest after the gate.
LaunchResume ==
    /\ launch.pc = "woken"
    /\ IF ProgramMissing(launch.program)
       THEN /\ fx' = <<StepFx("launchRequest"), StepFx("gate:" \o launch.by), NoProgram>>
            /\ launch' = NoLaunch
            /\ UNCHANGED <<driverVars, childVars, perlProcess, registered, nInvoked>>
       ELSE /\ child' = "running"
            /\ pos' \in Positions
            /\ stdin' = <<>>
            /\ banner' = FALSE
            /\ dbline' = {}
            /\ childHalf' = FALSE
            /\ perlProcess' = TRUE
            /\ waitingResolvers' = <<>>
            /\ buffer' = <<>>
            /\ chain' = _sync(<<>>, NewTask(autoFlushStdOut, 0, nInvoked))
            /\ nInvoked' = nInvoked + 1
            /\ registered' = TRUE
            /\ launch' = [launch EXCEPT !.pc = "done", !.by = ""]
            /\ fx' = <<StepFx("launchRequest"), StepFx("gate:" \o launch.by),
                       StepFx("spawn"), StepFx("new PerlProcess"),
                       StepFx("autoFlushStdOut"), StepFx("register"),
                       SendFx("response:launch"), SendFx("InitializedEvent")>>
    /\ UNCHANGED <<tracedOnce, breakpoints, shouldStop, hasPassedStopOnEntry, handlers, nWritten,
                   nResolved, nCalls>>
    /\ UNCHANGED analyzerVars

\* continueRequest, nextRequest, stepInRequest, stepOutRequest and
\* restartRequest call the driver without awaiting it and respond at once.
FireAndRespond(name, body) ==
    /\ Request(name)
    /\ FireOp(body)
    /\ fx' = <<StepFx(name \o "Request"), SendFx("response:" \o name)>>
    /\ UNCHANGED <<waitingResolvers, buffer, childVars, facadeVars, nWritten, nResolved>>
    /\ UNCHANGED analyzerVars

continueRequest == FireAndRespond("continue", continue)
nextRequest     == FireAndRespond("next", next)
stepInRequest   == FireAndRespond("stepIn", singleStep)
stepOutRequest  == FireAndRespond("stepOut", stepOut)
restartRequest  == FireAndRespond("restart", restart)

\* disconnectRequest: perlProcess?.stop(), perlProcess = undefined, response.
disconnectRequest ==
    /\ Request("disconnect")
    /\ IF perlProcess /\ child = "running"
       THEN child' = "killed" /\ stdin' = <<>>
       ELSE UNCHANGED <<child, stdin>>
    /\ perlProcess' = FALSE
    /\ fx' = <<StepFx("disconnectRequest")>>
             \o (IF perlProcess THEN <<StepFx("kill")>> ELSE <<>>)
             \o <<SendFx("response:disconnect")>>
    /\ UNCHANGED <<tracedOnce, driverVars, banner, childHalf, pos, dbline, registered, breakpoints, shouldStop,
                   hasPassedStopOnEntry, launch, handlers, nInvoked, nWritten, nResolved>>
    /\ UNCHANGED analyzerVars

\* variablesRequest for the 'locals' or 'globals' scope, and evaluateRequest:
\* one awaited driver call, then the response.
QueryRequest(name, body) ==
    /\ Request(name)
    /\ AwaitOp(FreeSlot(handlers), Handler(name, "query", "", <<>>, <<>>), body)
    /\ fx' = <<StepFx(name \o "Request")>>
    /\ UNCHANGED <<tracedOnce, waitingResolvers, buffer, childVars, perlProcess, registered, breakpoints,
                   shouldStop, hasPassedStopOnEntry, launch, nWritten, nResolved>>
    /\ UNCHANGED analyzerVars

variablesRequest ==
    \/ QueryRequest("variables", getLocalScopedVariables)
    \/ QueryRequest("variables", getGlobalScopedVariables)
evaluateRequest == QueryRequest("evaluate", evaluate)

\* setBreakPointsRequest up to its first await: the lines stored for the
\* path are deleted first.
\* A setBreakPointsRequest that finds nothing to delete.
NoStoredLines(path) == <<>>

StoredLines(path) ==
    [i \in 1..Len(breakpoints[path].bps) |-> breakpoints[path].bps[i].line]

SetBreakPoints(lists) ==
    /\ Request("setBreakpoints")
    /\ \E path \in Paths, clientLines \in lists :
         AwaitOp(FreeSlot(handlers),
                 [Handler("setBreakpoints", "deleting", path, clientLines, <<>>)
                     EXCEPT !.req = clientLines,
                            !.del = IF perlProcess
                                    THEN [i \in 1..Len(breakpoints[path].bps) |->
                                             breakpoints[path].bps[i].line]
                                    ELSE <<>>],
                 deleteBreakpoints(StoredLines(path)))
    /\ fx' = <<StepFx("setBreakPointsRequest")>>
    /\ UNCHANGED <<tracedOnce, waitingResolvers, buffer, childVars, perlProcess, registered, breakpoints,
                   shouldStop, hasPassedStopOnEntry, launch, nWritten, nResolved>>
    /\ UNCHANGED analyzerVars

setBreakPointsRequest == SetBreakPoints(ClientLists)

\* A setBreakPoints request that carries two breakpoints, on different lines.
PairLists == {ls \in LineLists : Len(ls) = 2 /\ ls[1] # ls[2]}
setBreakPointsRequestPair == SetBreakPoints(PairLists)

\* Every page asks the driver for the frames.
AnyPage(startFrame) == FALSE

\* args.startFrame !=- 0, that is startFrame != -0.
OtherPage(startFrame) == startFrame # 0

\* stackTraceRequest up to its await.  A request for another page
\* (startFrame # 0) is answered at once, without frames.  The handler
\* remembers whether it is the first of the session to ask for the frames.
stackTraceRequest ==
    /\ Request("stackTrace")
    /\ \E startFrame \in {0, 1} :
         IF OtherPage(startFrame)
         THEN /\ fx' = <<StepFx("stackTraceRequest"), Fx("startFrame", "", startFrame),
                         SendFx("response:stackTrace")>>
              /\ UNCHANGED <<chain, handlers, nInvoked, tracedOnce>>
         ELSE /\ AwaitOp(FreeSlot(handlers),
                         [Handler("stackTrace", "trace", "", <<>>, <<>>)
                             EXCEPT !.first = perlProcess /\ ~tracedOnce],
                         trace)
              /\ tracedOnce' = (tracedOnce \/ perlProcess)
              /\ fx' = <<StepFx("stackTraceRequest"), Fx("startFrame", "", startFrame)>>
    /\ UNCHANGED <<waitingResolvers, buffer, childVars, perlProcess, registered, breakpoints,
                   shouldStop, hasPassedStopOnEntry, launch, nWritten, nResolved>>
    /\ UNCHANGED analyzerVars

\* parsePerlStackTrace: the frames listed in the output; only a `T` reply
\* at a position inside a sub has lines of the form `. = sub() called from
\* file '...' line N`.
parsePerlStackTrace(output) ==
    [i \in 1..Len(output.frames) |-> [line |-> output.frames[i], fullPath |-> "a.pl"]]

\* result?.match(/not breakable/)
notBreakable(result) == result.any /\ result.nb

\* lineNotInBreakpoints: breakpoints.get(filePath)?.every(bp => bp.line != line) || false
lineNotInBreakpoints(line, filePath) ==
    IF ~breakpoints[filePath].has THEN FALSE
    ELSE \A i \in 1..Len(breakpoints[filePath].bps) : breakpoints[filePath].bps[i].line # line

\* The continuation of an async handler after its await.
HandlerRun(h) ==
    LET rec == handlers[h]
        finish(msgs) ==
            /\ handlers' = Returned(handlers, h)
            /\ fx' = <<StepFx(rec.kind \o ":" \o rec.phase)>> \o msgs
            /\ UNCHANGED <<chain, nInvoked>>
    IN  /\ rec.st = "run"
        /\ CASE rec.phase = "query" ->
                  /\ finish(<<SendFx("response:" \o rec.kind)>>)
                  /\ UNCHANGED <<breakpoints, hasPassedStopOnEntry>>
             [] rec.phase \in {"deleting", "setting"} ->
                  LET acc == IF rec.phase = "setting"
                             THEN Append(rec.acc, [line |-> Head(rec.lines),
                                                   verified |-> ~notBreakable(rec.res),
                                                   from |-> rec.res.re,
                                                   cmd |-> rec.cmd])
                             ELSE rec.acc
                      todo == IF rec.phase = "setting" THEN Tail(rec.lines) ELSE rec.lines
                  IN  /\ UNCHANGED hasPassedStopOnEntry
                      /\ IF todo = <<>>
                         THEN /\ breakpoints' = [breakpoints EXCEPT ![rec.path] =
                                                   [has |-> TRUE, bps |-> acc]]
                              /\ finish(<<StoreFx(rec.path, h),
                                          SendFx("response:setBreakpoints")>>)
                         ELSE /\ AwaitOp(h, [rec EXCEPT !.phase = "setting", !.lines = todo,
                                                        !.acc = acc,
                                                        !.cmd = IF perlProcess
                                                                THEN nInvoked + 1 ELSE 0],
                                         setBreakpoint(Head(todo)))
                              /\ fx' = <<StepFx(rec.kind \o ":" \o rec.phase)>>
                              /\ UNCHANGED breakpoints
             [] rec.phase = "trace" ->
                  LET result == parsePerlStackTrace(rec.res)
                      top == TopFx(rec.first, result[1].line)
                  IN  /\ UNCHANGED breakpoints
                      /\ IF ~rec.res.any
                         THEN /\ finish(<<>>)
                              /\ UNCHANGED hasPassedStopOnEntry
                         ELSE IF result = <<>>
                         THEN /\ finish(<<StepFx("TypeError")>>)
                              /\ UNCHANGED hasPassedStopOnEntry
                         ELSE IF /\ ~hasPassedStopOnEntry
                                 /\ lineNotInBreakpoints(result[1].line, result[1].fullPath)
                         THEN /\ hasPassedStopOnEntry' = TRUE
                              /\ AwaitOp(h, [rec EXCEPT !.phase = "continuing"], continue)
                              /\ fx' = <<StepFx(rec.kind \o ":" \o rec.phase), top,
                                         StepFx("continue")>>
                         ELSE /\ finish(<<top, SendFx("response:stackTrace")>>)
                              /\ UNCHANGED hasPassedStopOnEntry
             [] rec.phase = "continuing" ->
                  /\ finish(<<SendFx("response:stackTrace")>>)
                  /\ UNCHANGED <<breakpoints, hasPassedStopOnEntry>>
        /\ UNCHANGED <<tracedOnce, waitingResolvers, buffer, childVars, perlProcess, registered,
                       shouldStop, launch, nWritten, nResolved, nCalls>>
        /\ UNCHANGED analyzerVars

HandlerResume ==
    /\ ~TaskReady
    /\ ~TaskStartable
    /\ \E h \in 1..Len(handlers) : HandlerRun(h)

----------------------------------------------------------------------------
\* Analyzer: the workspace index.

MaxChanges == 2           \* didChangeContent events in one run
MaxNumberOfProblems == 2  \* settings.maxNumberOfProblems

URIs == {"u1", "u2", "u3"}
Names == {"f", "g"}

\* The text of a file, reduced to what one pass over its syntax tree finds:
\* the names of the function definitions, the names of the call sites (both
\* in document order) and the number of error / missing nodes.
Text(defs, calls, errors) == [defs |-> defs, calls |-> calls, errors |-> errors]
Texts ==
    {Text(<<>>, <<>>, 0),
     Text(<<"f">>, <<"g", "f", "g">>, 1),
     Text(<<"g", "f">>, <<"f">>, 2)}

\* A JavaScript Map, as the function from its keys to its values.
EmptyMap == <<>>
MapSet(m, k, v) == [x \in (DOMAIN m) \cup {k} |-> IF x = k THEN v ELSE m[x]]
MapDelete(m, k) == [x \in (DOMAIN m) \ {k} |-> m[x]]
MapHas(m, k) == k \in DOMAIN m

\* A FunctionReference: its uri, its name and its position (the row).
FunctionReference(uri, functionName, row) ==
    [uri |-> uri, functionName |-> functionName, row |-> row]

\* The value kept per URI in uriToFunctionReferences: a Map from function
\* name to the references, or (after a load) a plain object.
RefMap(entries) == [kind |-> "Map", entries |-> entries]
PlainObject(entries) == [kind |-> "Object", entries |-> entries]

NewIndex == [uriToTree |-> EmptyMap, uriToVariableDeclarations |-> EmptyMap,
             uriToFunctionDeclarations |-> EmptyMap, uriToFunctionReferences |-> EmptyMap]

\* The declarations and the call sites one pass over the tree of a text finds.
ExtractedDeclarations(uri, text) ==
    [i \in 1..Len(text.defs) |-> FunctionReference(uri, text.defs[i], i)]
ExtractedReferences(uri, text) ==
    LET all == [i \in 1..Len(text.calls) |-> FunctionReference(uri, text.calls[i], i)]
        names == {text.calls[i] : i \in 1..Len(text.calls)}
    IN  RefMap([n \in names |-> SelectSeq(all, LAMBDA r : r.functionName = n)])

\* An extraction that appends to the declarations already held for the uri.
extractKeepingOld(ix, uri, text) ==
    LET old == IF MapHas(ix.uriToFunctionDeclarations, uri)
               THEN ix.uriToFunctionDeclarations[uri] ELSE <<>>
    IN  [ix EXCEPT
           !.uriToFunctionDeclarations = MapSet(@, uri, old \o ExtractedDeclarations(uri, text)),
           !.uriToFunctionReferences = MapSet(@, uri, ExtractedReferences(uri, text))]

\* extractAndSetDeclarationsAndReferencesFromFile: both entries of the uri
\* are replaced by what the pass finds.
extractAndSetDeclarationsAndReferencesFromFile(ix, uri, text) ==
    [ix EXCEPT
       !.uriToFunctionDeclarations = MapSet(@, uri, ExtractedDeclarations(uri, text)),
       !.uriToFunctionReferences = MapSet(@, uri, ExtractedReferences(uri, text))]

\* analyze: the tree is cached when caching is full or on a file open, the
\* variable declarations of the uri are reset, the problems are collected
\* when asked for, the declarations and references are extracted.
analyze(ix, uri, text, full, mode, getProblems) ==
    LET cached == IF full \/ mode = "OnFileOpen"
                  THEN [ix EXCEPT !.uriToTree = MapSet(@, uri, text)] ELSE ix
        reset  == [cached EXCEPT !.uriToVariableDeclarations = MapSet(@, uri, EmptyMap)]
    IN  [index |-> extractAndSetDeclarationsAndReferencesFromFile(reset, uri, text),
         problems |-> IF getProblems THEN text.errors ELSE 0]

\* A cleanup that forgets to delete the references.
cleanupKeepingReferences(ix, uri) ==
    [ix EXCEPT !.uriToTree = MapDelete(@, uri),
               !.uriToVariableDeclarations = MapDelete(@, uri),
               !.uriToFunctionDeclarations = MapDelete(@, uri)]

\* cleanup: the uri is deleted from the four maps.
cleanup(ix, uri) ==
    [uriToTree |-> MapDelete(ix.uriToTree, uri),
     uriToVariableDeclarations |-> MapDelete(ix.uriToVariableDeclarations, uri),
     uriToFunctionDeclarations |-> MapDelete(ix.uriToFunctionDeclarations, uri),
     uriToFunctionReferences |-> MapDelete(ix.uriToFunctionReferences, uri)]

\* The trees an operation allocates and frees: parser.parse allocates the
\* tree, uriToTree.set(uri, tree.copy()) allocates the copy it stores, and
\* tree.delete() frees the parsed tree.
TreeFx(uri, stores) ==
    <<Fx("parse", uri, 0)>>
    \o (IF stores THEN <<Fx("copy", uri, 0)>> ELSE <<>>)
    \o <<Fx("delete", uri, 0)>>

\* getTreeFromURI: a uri without a cached tree gets the tree of the content
\* read from its file (of the empty text when the read fails).
getTreeFromURI(ix, uri, fileContent) ==
    IF MapHas(ix.uriToTree, uri) THEN ix
    ELSE [ix EXCEPT !.uriToTree = MapSet(@, uri, fileContent)]

\* renameFunction, per uri: the callbacks started for the uri, in order (one
\* per reference recorded under the name, then one per declaration of that
\* name). Reading a name from a references value that is not a Map throws.
Edit(kind, ref) == [kind |-> kind, uri |-> ref.uri, row |-> ref.row]
Callbacks(ix, uri, functionName) ==
    LET refs == IF /\ MapHas(ix.uriToFunctionReferences, uri)
                   /\ ix.uriToFunctionReferences[uri].kind = "Map"
                   /\ MapHas(ix.uriToFunctionReferences[uri].entries, functionName)
                THEN ix.uriToFunctionReferences[uri].entries[functionName] ELSE <<>>
        decls == IF MapHas(ix.uriToFunctionDeclarations, uri)
                 THEN SelectSeq(ix.uriToFunctionDeclarations[uri],
                                LAMBDA d : d.functionName = functionName)
                 ELSE <<>>
    IN  [i \in 1..Len(refs) |-> Edit("ref", refs[i])]
        \o [i \in 1..Len(decls) |-> Edit("decl", decls[i])]

\* renameFunction: the changes of the WorkspaceEdit it returns. Every
\* callback takes renameChanges[uri] || [] before its await, when no entry
\* is set yet, pushes its edit to that list after the await and sets the
\* entry to it: of a uri whose tree is cached the last callback's list
\* remains. A callback that has to read the file resumes after the edit
\* was returned.
renameFunction(ix, functionName) ==
    [uri \in URIs |->
        LET cbs == Callbacks(ix, uri, functionName)
        IN  IF cbs # <<>> /\ MapHas(ix.uriToTree, uri) THEN <<cbs[Len(cbs)]>> ELSE <<>>]

\* JSON.stringify of a value of the maps: an array is written element by
\* element; a Map has no enumerable property and is written as {}.
Stringify(v) == IF v.kind = "Map" THEN PlainObject(EmptyMap) ELSE v

\* saveFunctionMapToFile: Object.fromEntries of both maps, as JSON.
NoFile == [exists |-> FALSE, uriToFunctionDeclarations |-> EmptyMap,
           functionReference |-> EmptyMap]
SavedFile(ix) ==
    [exists |-> TRUE,
     uriToFunctionDeclarations |-> ix.uriToFunctionDeclarations,
     functionReference |-> [u \in DOMAIN ix.uriToFunctionReferences |->
                              Stringify(ix.uriToFunctionReferences[u])]]

\* loadFunctionMapFromFile: both maps are replaced by the entries of the
\* file; without a file nothing changes.
Loaded(ix, file) ==
    IF file.exists
    THEN [ix EXCEPT !.uriToFunctionDeclarations = file.uriToFunctionDeclarations,
                    !.uriToFunctionReferences = file.functionReference]
    ELSE ix

\* analyzeFromWorkspace, not called yet: its position (pc), its locals
\* (files and the file reached, problemsCounter, getProblems, fileCounter,
\* the outcome of the analyze it awaits), and what it has done so far (files
\* whose read failed, files handed to analyze, files analyzed with collection off,
\* diagnostics published, the calls of progress.done() and the file at which
\* it was called).
NoScan == [pc |-> "idle", folders |-> FALSE, files |-> <<>>, i |-> 0,
           problemsCounter |-> 0, getProblems |-> TRUE, fileCounter |-> 0,
           problems |-> 0, thrown |-> FALSE,
           failed |-> {}, analyzed |-> {}, off |-> 0, published |-> 0,
           dones |-> 0, doneAt |-> 0]

\* PerlServer and its TextDocuments: the content of each document, the open
\* documents, hasConfigurationCapability, the state of the settings promise
\* cached under 'all', the onDidChangeContent handlers suspended on it
\* (waiting), the handlers (jobs), the continuations queued to run (queue,
\* oldest first; 0 stands for analyzeFromWorkspace), the number of change
\* events so far and the diagnostics the handlers have published.
NoDocs == [text |-> EmptyMap, open |-> {}, registered |-> FALSE, capability |-> FALSE,
           settings |-> "unasked", waiting |-> <<>>, jobs |-> <<>>, queue |-> <<>>,
           changes |-> 0, pubs |-> <<>>]

AnalyzerInit ==
    /\ index = NewIndex
    /\ saved = NoFile
    /\ scan = NoScan
    /\ docs = NoDocs

debuggerVars == <<driverVars, childVars, facadeVars, countVars>>

\* The operations of the Analyzer, called one at a time, on the documents
\* a client works on.
OpenURIs == {"u1", "u2"}

Analyze ==
    \E uri \in OpenURIs, text \in Texts,
       mode \in {"OnFileOpen", "OnWorkspaceOpen"}, getProblems \in BOOLEAN :
        LET a == analyze(index, uri, text, FALSE, mode, getProblems)
        IN  /\ index' = a.index
            /\ fx' = <<Fx("analyze", uri, text.errors), Fx("problems", uri, a.problems),
                       Fx("had", uri, IF MapHas(index.uriToFunctionDeclarations, uri)
                                      THEN Len(index.uriToFunctionDeclarations[uri]) ELSE 0),
                       Fx(mode, uri, 0)>>
                      \o TreeFx(uri, mode = "OnFileOpen")
            /\ UNCHANGED <<debuggerVars, saved, scan, docs>>

Cleanup ==
    \E uri \in OpenURIs :
        /\ index' = cleanup(index, uri)
        /\ fx' = <<Fx("cleanup", uri, IF MapHas(index.uriToFunctionReferences, uri)
                                       THEN 1 ELSE 0)>>
        /\ UNCHANGED <<debuggerVars, saved, scan, docs>>

Save ==
    /\ saved' = SavedFile(index)
    /\ fx' = <<Fx("save", "", 0)>>
    /\ UNCHANGED <<debuggerVars, index, scan, docs>>

Load ==
    /\ index' = Loaded(index, saved)
    /\ fx' = <<Fx("load", "", IF saved.exists THEN 1 ELSE 0)>>
    /\ UNCHANGED <<debuggerVars, saved, scan, docs>>

\* getTreeFromURI for a uri, with the content its file has (the empty text
\* when it cannot be read).
GetTree ==
    \E uri \in OpenURIs, fileContent \in Texts :
        /\ index' = getTreeFromURI(index, uri, fileContent)
        /\ fx' = <<Fx("getTree", uri, IF MapHas(index.uriToTree, uri) THEN 1 ELSE 0)>>
                 \o (IF MapHas(index.uriToTree, uri) THEN <<>> ELSE TreeFx(uri, TRUE))
        /\ UNCHANGED <<debuggerVars, saved, scan, docs>>

\* renameFunction for a name: the edit returned, and the trees the late
\* callbacks cache once their files are read.
RenameFx(changes, uri) ==
    [i \in 1..Len(changes[uri]) |-> Fx(changes[uri][i].kind, uri, changes[uri][i].row)]
RenameTrees(ix, functionName, fileContent) ==
    [ix EXCEPT !.uriToTree =
        [uri \in DOMAIN ix.uriToTree
                 \cup {u \in URIs : Callbacks(ix, u, functionName) # <<>>} |->
            IF MapHas(ix.uriToTree, uri) THEN ix.uriToTree[uri] ELSE fileContent]]
Rename ==
    \E functionName \in Names, fileContent \in Texts :
        LET changes == renameFunction(index, functionName)
        IN  /\ index' = RenameTrees(index, functionName, fileContent)
            /\ fx' = <<Fx("rename", functionName, 0)>>
                        \o RenameFx(changes, "u1") \o RenameFx(changes, "u2")
                        \o RenameFx(changes, "u3")
            /\ UNCHANGED <<debuggerVars, saved, scan, docs>>

----------------------------------------------------------------------------
\* The package of a declaration.

MaxNodes == 4   \* nodes of a syntax tree, the source_file node included

\* A syntax tree: its nodes in document order, each with its type, its text
\* (the package_name of a package_statement) and its parent (0 for the
\* source_file node). Only source_file and block nodes have children.
PackageNames == {"A", "B"}
SyntaxNode(type, text, parent) == [type |-> type, text |-> text, parent |-> parent]
RECURSIVE Ancestors(_, _)
Ancestors(tree, n) == IF n = 0 THEN {} ELSE {n} \cup Ancestors(tree, tree[n].parent)
SyntaxNodes ==
    {SyntaxNode("package_statement", p, q) : p \in PackageNames, q \in 1..(MaxNodes - 1)}
    \cup {SyntaxNode(t, "", q) : t \in {"function_definition", "block"},
                                 q \in 1..(MaxNodes - 1)}
    \cup {SyntaxNode("source_file", "", 0)}
SyntaxTrees ==
    UNION {{tree \in [1..len -> SyntaxNodes] :
              /\ tree[1].type = "source_file"
              /\ \A i \in 2..len :
                    /\ tree[i].parent \in 1..(i - 1)
                    /\ tree[tree[i].parent].type \in {"source_file", "block"}
                    /\ tree[i].parent \in Ancestors(tree, i - 1)} : len \in 1..MaxNodes}

\* node.descendantsOfType(type), in document order.
descendantsOfType(tree, n, type) ==
    SelectSeq([j \in 1..Len(tree) |-> j],
              LAMBDA j : tree[j].type = type /\ n \in Ancestors(tree, j))

\* getPackageNodeForNode: the last package_statement below the node, else
\* that of the parent; 0 for null.
RECURSIVE getPackageNodeForNode(_, _)
getPackageNodeForNode(tree, n) ==
    LET package_statements == descendantsOfType(tree, n, "package_statement")
    IN  IF Len(package_statements) > 0 THEN package_statements[Len(package_statements)]
        ELSE IF tree[n].parent # 0 THEN getPackageNodeForNode(tree, tree[n].parent)
        ELSE 0

\* packageName of a function definition, as the extractor records it.
packageName(tree, n) ==
    LET p == getPackageNodeForNode(tree, n)
    IN  IF p = 0 THEN "" ELSE tree[p].text

\* The extractor records the declaration of a function definition.
ExtractDeclaration ==
    \E tree \in SyntaxTrees :
        \E n \in DOMAIN tree :
            /\ fx = <<>>
            /\ tree[n].type = "function_definition"
            /\ fx' = <<Fx("declaration", tree, n), Fx("packageName", packageName(tree, n), 0)>>
            /\ UNCHANGED <<debuggerVars, analyzerVars>>

----------------------------------------------------------------------------
\* Import synthesis.

MaxImports == 7   \* use statements of a file

\* A use statement: `use <package>;` or `use <package> qw( <functions> );`.
\* A file is reduced to its use statements, in document order; the range of
\* a statement is its place in that order.
UseFull(package) == [package |-> package, qw |-> FALSE, functions |-> <<>>]
UseQw(package, functions) == [package |-> package, qw |-> TRUE, functions |-> functions]
BlankLine == [package |-> "", qw |-> FALSE, functions |-> <<>>]
ImportStatements == {UseFull("strict"), UseFull("Q"), UseQw("P", <<"g">>)}
ImportFiles == UNION {[1..n -> ImportStatements] : n \in 0..MaxImports}

\* The order of Array.prototype.sort on the texts of the statements: by
\* code unit, a text before the texts it is a prefix of.
CodeUnit(word) ==
    CASE word = "P" -> 1 [] word = "Q" -> 2 [] word = "f" -> 3 [] word = "g" -> 4
      [] word = "strict" -> 5 [] OTHER -> 0
RECURSIVE WordsBefore(_, _)
WordsBefore(a, b) ==
    IF a = <<>> THEN b # <<>>
    ELSE IF b = <<>> THEN FALSE
    ELSE IF Head(a) = Head(b) THEN WordsBefore(Tail(a), Tail(b))
    ELSE CodeUnit(Head(a)) < CodeUnit(Head(b))
TextBefore(a, b) == WordsBefore(<<a.package>> \o a.functions, <<b.package>> \o b.functions)
RECURSIVE InsertText(_, _)
InsertText(x, sorted) ==
    IF sorted = <<>> THEN <<x>>
    ELSE IF TextBefore(x, Head(sorted)) THEN <<x>> \o sorted
    ELSE <<Head(sorted)>> \o InsertText(x, Tail(sorted))
RECURSIVE SortTexts(_)
SortTexts(list) ==
    IF list = <<>> THEN <<>>
    ELSE InsertText(list[Len(list)], SortTexts(SubSeq(list, 1, Len(list) - 1)))
RECURSIVE InsertWord(_, _)
InsertWord(x, sorted) ==
    IF sorted = <<>> THEN <<x>>
    ELSE IF CodeUnit(x) < CodeUnit(Head(sorted)) THEN <<x>> \o sorted
    ELSE <<Head(sorted)>> \o InsertWord(x, Tail(sorted))
RECURSIVE SortWords(_)
SortWords(list) ==
    IF list = <<>> THEN <<>>
    ELSE InsertWord(list[Len(list)], SortWords(SubSeq(list, 1, Len(list) - 1)))

\* getImportStatementStringAndRangeInCurrentFile
getImportStatementStringAndRangeInCurrentFile(file) ==
    [fullImportStatements |-> SelectSeq(file, LAMBDA st : ~st.qw),
     fnOnlyImportStatements |-> SelectSeq(file, LAMBDA st : st.qw),
     range |-> [i \in 1..Len(file) |-> i]]

\* sortPackageBlocksInCurrentFile: the lines of the text it returns.
packagesToBeAtTop == {"strict", "warnings"}
sortPackageBlocksInCurrentFile(fullImportPackages, fnOnlyImportPackages) ==
    LET AtTop(st) == st.package \in packagesToBeAtTop
        NotAtTop(st) == ~AtTop(st)
        fullPackagesAtTop == SelectSeq(fullImportPackages, AtTop)
        full == SelectSeq(fullImportPackages, NotAtTop)
        fnOnlyPackageAtTop == SelectSeq(fnOnlyImportPackages, AtTop)
        fnOnly == SelectSeq(fnOnlyImportPackages, NotAtTop)
        Gap(list) == IF Len(list) > 0 THEN <<BlankLine>> ELSE <<>>
    IN  SortTexts(fullPackagesAtTop) \o Gap(fullPackagesAtTop)
        \o SortTexts(fnOnlyPackageAtTop) \o Gap(fnOnlyPackageAtTop)
        \o SortTexts(full) \o Gap(full)
        \o SortTexts(fnOnly)

\* getAdditionalEditsForFunctionImports: a statement of the package that
\* lacks the function is rewritten with it, the functions sorted; if no
\* statement of the package is there, one is added; the text replaces the
\* span from the first range to the sixth. Without a sixth range the read
\* of its end throws.
getAdditionalEditsForFunctionImports(file, containerName, functionNameToImport) ==
    LET detail == getImportStatementStringAndRangeInCurrentFile(file)
        Imports(st) == \E i \in DOMAIN st.functions : st.functions[i] = functionNameToImport
        exists == \E i \in DOMAIN detail.fnOnlyImportStatements :
                      detail.fnOnlyImportStatements[i].package = containerName
        rewritten == [i \in DOMAIN detail.fnOnlyImportStatements |->
                        LET st == detail.fnOnlyImportStatements[i]
                        IN  IF st.package = containerName /\ ~Imports(st)
                            THEN UseQw(containerName,
                                       SortWords(Append(st.functions, functionNameToImport)))
                            ELSE st]
        fnOnly == IF exists THEN rewritten
                  ELSE Append(rewritten, UseQw(containerName, <<functionNameToImport>>))
    IN  IF Len(detail.range) < 6 THEN [thrown |-> TRUE, newText |-> <<>>, from |-> 0, to |-> 0]
        ELSE [thrown |-> FALSE,
              newText |-> sortPackageBlocksInCurrentFile(detail.fullImportStatements, fnOnly),
              from |-> detail.range[1], to |-> detail.range[6]]

\* The use statements of the file after a text edit was applied.
Applied(file, edit) ==
    SubSeq(file, 1, edit.from - 1)
    \o SelectSeq(edit.newText, LAMBDA line : line # BlankLine)
    \o SubSeq(file, edit.to + 1, Len(file))

\* The edits for one function are derived for a file and applied, and
\* derived again for the result and applied.
ImportFunction ==
    \E file \in ImportFiles, functionNameToImport \in {"f", "g"} :
        LET first == getAdditionalEditsForFunctionImports(file, "P", functionNameToImport)
            once == Applied(file, first)
            second == getAdditionalEditsForFunctionImports(once, "P", functionNameToImport)
        IN  /\ fx = <<>>
            /\ fx' = IF first.thrown
                      THEN <<Fx("import", file, functionNameToImport), Fx("thrown", <<>>, 1)>>
                      ELSE IF second.thrown
                      THEN <<Fx("import", file, functionNameToImport), Fx("once", once, 0),
                             Fx("thrown", <<>>, 2)>>
                      ELSE <<Fx("import", file, functionNameToImport), Fx("once", once, 0),
                             Fx("twice", Applied(once, second), 0)>>
            /\ UNCHANGED <<debuggerVars, analyzerVars>>

----------------------------------------------------------------------------
\* The debugger's array dumps.

MaxEntries == 3   \* top-level entries of an array dump

\* A dump is given by its shape: for each top-level entry the number of
\* further-indented lines that follow it. A line has a kind, an indentation,
\* an index (entry lines) and a text; the text of entry i is <<i, 0>>, that
\* of its j-th continuation line <<i, j>>.
Shapes == UNION {[1..k -> 0..2] : k \in 0..MaxEntries}
DumpLine(kind, indent, idx, text) ==
    [kind |-> kind, indent |-> indent, index |-> idx, text |-> text]
OpenLine == DumpLine("(", 0, -1, <<-1, 0>>)
CloseLine == DumpLine(")", 0, -1, <<-1, 1>>)
RECURSIVE DumpEntries(_, _, _)
DumpEntries(shape, i, indent) ==
    IF i > Len(shape) THEN <<>>
    ELSE <<DumpLine("entry", indent, i - 1, <<i - 1, 0>>)>>
         \o [j \in 1..shape[i] |-> DumpLine("nested", indent + 3, -1, <<i - 1, j>>)]
         \o DumpEntries(shape, i + 1, indent)
Dump(shape, indent) == <<OpenLine>> \o DumpEntries(shape, 1, indent) \o <<CloseLine>>

\* getValuesFromArrayContext: the loop over the lines. A line that starts
\* with `(` is skipped; the indentation is that of the first line not
\* skipped; a line with that indentation followed by an index starts an
\* entry; any other line is added to the entry in progress.
RECURSIVE ArrayLines(_, _)
ArrayLines(lines, st) ==
    IF lines = <<>> THEN st
    ELSE LET line == Head(lines)
             indent == IF st.indent = -1 THEN line.indent ELSE st.indent
             indexMatch == line.kind = "entry" /\ line.indent = indent
         IN  IF line.kind = "(" THEN ArrayLines(Tail(lines), st)
             ELSE IF indexMatch
             THEN ArrayLines(Tail(lines),
                     [indent |-> indent,
                      result |-> IF st.currentIndex # -1
                                 THEN Append(st.result, st.currentValueLines)
                                 ELSE st.result,
                      currentIndex |-> line.index,
                      currentValueLines |-> <<line.text>>])
             ELSE IF st.currentIndex # -1
             THEN ArrayLines(Tail(lines),
                     [st EXCEPT !.indent = indent,
                                !.currentValueLines = Append(@, line.text)])
             ELSE ArrayLines(Tail(lines), [st EXCEPT !.indent = indent])
getValuesFromArrayContext(lines) ==
    LET st == ArrayLines(lines, [indent |-> -1, result |-> <<>>, currentIndex |-> -1,
                                 currentValueLines |-> <<>>])
    IN  IF st.currentIndex # -1 THEN Append(st.result, st.currentValueLines)
        ELSE st.result

\* getListLengthFromValue: the index of the last line that has an index
\* after exactly three blanks; one more than it unless it is 0.
RECURSIVE LastIndexOf(_, _)
LastIndexOf(lines, lastIndex) ==
    IF lines = <<>> THEN lastIndex
    ELSE LastIndexOf(Tail(lines),
                     IF Head(lines).kind = "entry" /\ Head(lines).indent = 3
                     THEN Head(lines).index ELSE lastIndex)
getListLengthFromValue(lines) ==
    LET lastIndex == LastIndexOf(lines, 0)
    IN  IF lastIndex # 0 THEN lastIndex + 1 ELSE 0

\* variablesRequest expands an array value.
ArrayValues ==
    \E shape \in Shapes, indent \in {0, 3} :
        /\ fx = <<>>
        /\ fx' = <<Fx("array", shape, indent),
                   Fx("values", getValuesFromArrayContext(Dump(shape, indent)), 0)>>
        /\ UNCHANGED <<debuggerVars, analyzerVars>>

\* prettifyVariables shows an array variable of a scope.
ArrayLength ==
    \E shape \in Shapes :
        /\ fx = <<>>
        /\ fx' = <<Fx("list", shape, 3),
                   Fx("length", <<>>, getListLengthFromValue(Dump(shape, 3)))>>
        /\ UNCHANGED <<debuggerVars, analyzerVars>>

----------------------------------------------------------------------------
\* PerlServer: the document events and the workspace scan.

\* No continuation is queued: the event loop takes the next event.
ServerIdle == docs.queue = <<>>

\* analyze reports what it did: the uri, the error nodes of the content,
\* the problems returned, the declarations the uri had before, the mode.
AnalyzeFx(ix, uri, text, problems, mode) ==
    <<Fx("analyze", uri, text.errors), Fx("problems", uri, problems),
      Fx("had", uri, IF MapHas(ix.uriToFunctionDeclarations, uri)
                     THEN Len(ix.uriToFunctionDeclarations[uri]) ELSE 0),
      Fx(mode, uri, 0)>>

\* PerlServer.initialize: analyzeFromWorkspace is called and not awaited; it
\* runs up to its first await, the read of the cached map.
ScanFiles == <<"u1", "u2", "u3">>
ScanStart ==
    \E folders \in BOOLEAN, files \in {<<>>, ScanFiles} :
        /\ scan.pc = "idle"
        /\ folders \/ files = <<>>
        /\ scan' = [NoScan EXCEPT !.pc = "loading", !.folders = folders,
                                  !.files = files]
        /\ fx' = <<Fx("initialize", "", 0)>>
        /\ UNCHANGED <<debuggerVars, index, saved, docs>>

\* PerlServer.register: the client's capabilities are recorded and the
\* handlers are installed.
register ==
    \E capability \in BOOLEAN :
        /\ scan.pc # "idle"
        /\ ~docs.registered
        /\ docs' = [docs EXCEPT !.registered = TRUE, !.capability = capability]
        /\ fx' = <<Fx("register", "", 0)>>
        /\ UNCHANGED <<debuggerVars, index, saved, scan>>

\* getDocumentSettings('all') as awaited by a handler: TRUE when the value
\* is there (global settings, or the cached promise has been answered).
SettingsKnown == ~docs.capability \/ docs.settings = "known"

\* onDidChangeContent, up to its first await: the document manager holds
\* the new content, the handler asks for the settings and suspends.
didChangeContent ==
    \E uri \in OpenURIs, text \in Texts :
        /\ docs.registered
        /\ ServerIdle
        /\ docs.changes < MaxChanges
        /\ LET id == docs.changes + 1
               job == [uri |-> uri, stage |-> "settings", diagnosis |-> 0]
           IN  docs' = [docs EXCEPT
                   !.text = MapSet(@, uri, text),
                   !.open = @ \cup {uri},
                   !.changes = id,
                   !.jobs = Append(@, job),
                   !.settings = IF docs.capability /\ @ = "unasked" THEN "asked" ELSE @,
                   !.queue = IF SettingsKnown THEN <<id>> ELSE @,
                   !.waiting = IF SettingsKnown THEN @ ELSE Append(@, id)]
        /\ fx' = <<Fx("didChange", uri, docs.changes + 1)>>
        /\ UNCHANGED <<debuggerVars, index, saved, scan>>

\* The client answers workspace/configuration: the cached promise resolves
\* and the handlers suspended on it are queued in the order they awaited.
settingsReply ==
    /\ ServerIdle
    /\ docs.settings = "asked"
    /\ docs' = [docs EXCEPT !.settings = "known", !.queue = docs.waiting,
                            !.waiting = <<>>]
    /\ fx' = <<Fx("settings", "", 0)>>
    /\ UNCHANGED <<debuggerVars, index, saved, scan>>

\* onDidChangeContent resumes: with the settings it analyzes the text the
\* document holds now and awaits the result; with the result it sends the
\* diagnostics.
changeResume ==
    /\ docs.queue # <<>>
    /\ Head(docs.queue) # 0
    /\ LET id == Head(docs.queue)
           job == docs.jobs[id]
           text == docs.text[job.uri]
           a == analyze(index, job.uri, text, FALSE, "OnFileOpen", TRUE)
       IN  IF job.stage = "settings"
           THEN /\ index' = a.index
                /\ docs' = [docs EXCEPT !.jobs[id].stage = "send",
                                        !.jobs[id].diagnosis = a.problems,
                                        !.queue = Append(Tail(@), id)]
                /\ fx' = AnalyzeFx(index, job.uri, text, a.problems, "OnFileOpen")
           ELSE /\ docs' = [docs EXCEPT !.jobs[id].stage = "sent",
                                        !.queue = Tail(@),
                                        !.pubs = Append(@, [uri |-> job.uri, id |-> id,
                                                            n |-> job.diagnosis])]
                /\ fx' = <<Fx("sendDiagnostics", job.uri, job.diagnosis)>>
                /\ UNCHANGED index
    /\ UNCHANGED <<debuggerVars, saved, scan>>

\* onDidClose: the document leaves the manager; the settings cache has no
\* entry under the document's uri (its one key is 'all').
didClose ==
    \E uri \in docs.open :
        /\ ServerIdle
        /\ docs' = [docs EXCEPT !.open = @ \ {uri}]
        /\ fx' = <<Fx("didClose", uri, 0)>>
        /\ UNCHANGED <<debuggerVars, index, saved, scan>>

\* connection.onDidChangeConfiguration: the handler installed by server.ts
\* has an empty body (its statements are comments), and PerlServer installs
\* none; the settings cache of PerlServer is left as it is.
didChangeConfiguration ==
    /\ scan.pc # "idle"
    /\ ServerIdle
    /\ fx' = <<Fx("didChangeConfiguration", "", 0)>>
    /\ UNCHANGED <<debuggerVars, analyzerVars>>

\* analyzeFromWorkspace after the cached map was read: the maps are replaced
\* if there was one; with workspace folders the files are listed and the
\* first read is started.
ScanLoaded ==
    /\ ServerIdle
    /\ scan.pc = "loading"
    /\ index' = Loaded(index, saved)
    /\ scan' = [scan EXCEPT !.i = 1,
                            !.pc = IF ~scan.folders THEN "done"
                                   ELSE IF scan.files = <<>> THEN "saving"
                                   ELSE "reading"]
    /\ fx' = <<Fx("load", "", IF saved.exists THEN 1 ELSE 0)>>
    /\ UNCHANGED <<debuggerVars, saved, docs>>

\* The read of the current file ends. On failure a warning is logged and
\* analyzeFromWorkspace returns. Otherwise analyze is called with the
\* content read (it may throw before it touches the index) and awaited.
ScanRead ==
    /\ ServerIdle
    /\ scan.pc = "reading"
    /\ LET uri == scan.files[scan.i]
       IN  \/ /\ scan' = [scan EXCEPT !.pc = "returned", !.failed = @ \cup {uri}]
              /\ fx' = <<Fx("warn", uri, 0)>>
              /\ UNCHANGED <<index, docs>>
           \/ \E text \in Texts :
                LET a == analyze(index, uri, text, FALSE, "OnWorkspaceOpen",
                                 scan.getProblems)
                IN  /\ index' = a.index
                    /\ scan' = [scan EXCEPT !.pc = "analyzed", !.thrown = FALSE,
                                            !.problems = a.problems,
                                            !.analyzed = @ \cup {uri},
                                            !.off = IF scan.getProblems THEN @ ELSE @ + 1]
                    /\ docs' = [docs EXCEPT !.queue = <<0>>]
                    /\ fx' = AnalyzeFx(index, uri, text, a.problems, "OnWorkspaceOpen")
           \/ /\ scan' = [scan EXCEPT !.pc = "analyzed", !.thrown = TRUE, !.problems = 0,
                                       !.analyzed = @ \cup {uri}]
              /\ docs' = [docs EXCEPT !.queue = <<0>>]
              /\ fx' = <<Fx("throw", uri, 0)>>
              /\ UNCHANGED index
    /\ UNCHANGED <<debuggerVars, saved>>

\* settings.maxNumberOfProblems >= problemsCounter
AnyCount(cap, problemsCounter) == TRUE
WithinCap(cap, problemsCounter) == cap >= problemsCounter

\* analyzeFromWorkspace resumes after await this.analyze(...): the counter,
\* the diagnostics, catch and finally; then the next read is started, or,
\* after the last file, saveFunctionMapToFile is called.
ScanResume ==
    /\ docs.queue # <<>>
    /\ Head(docs.queue) = 0
    /\ LET uri == scan.files[scan.i]
           problemsCounter == scan.problemsCounter + scan.problems
           publish == ~scan.thrown /\ WithinCap(MaxNumberOfProblems, problemsCounter)
           fileCounter == scan.fileCounter + (IF scan.thrown THEN 2 ELSE 1)
       IN  /\ scan' = [scan EXCEPT
                   !.problemsCounter = IF scan.thrown THEN @ ELSE problemsCounter,
                   !.getProblems = IF scan.thrown THEN @ ELSE publish,
                   !.published = IF publish THEN @ + scan.problems ELSE @,
                   !.fileCounter = fileCounter,
                   !.dones = IF fileCounter = Len(scan.files) THEN @ + 1 ELSE @,
                   !.doneAt = IF fileCounter = Len(scan.files) THEN scan.i ELSE @,
                   !.i = @ + 1,
                   !.pc = IF scan.i = Len(scan.files) THEN "saving" ELSE "reading"]
           /\ fx' = IF scan.thrown THEN <<Fx("warn", uri, 1)>>
                     ELSE IF publish
                     THEN <<Fx("count", uri, problemsCounter),
                            Fx("sendDiagnostics", uri, scan.problems)>>
                     ELSE <<Fx("count", uri, problemsCounter)>>
    /\ docs' = [docs EXCEPT !.queue = Tail(@)]
    /\ UNCHANGED <<debuggerVars, index, saved>>

\* saveFunctionMapToFile after its await of mkdir: the maps as they are now
\* are written to the file.
ScanSave ==
    /\ ServerIdle
    /\ scan.pc = "saving"
    /\ saved' = SavedFile(index)
    /\ scan' = [scan EXCEPT !.pc = "done"]
    /\ fx' = <<Fx("save", "", 0)>>
    /\ UNCHANGED <<debuggerVars, index, docs>>

----------------------------------------------------------------------------
\* The driver on its own: new PerlProcess(childProcess), no listener yet.
InitDriver ==
    /\ chain = <<>>
    /\ waitingResolvers = <<>>
    /\ buffer = <<>>
    /\ child = "running"
    /\ stdin = <<>>
    /\ banner = FALSE
    /\ dbline = {}
    /\ childHalf = FALSE
    /\ pos \in Positions
    /\ perlProcess = TRUE
    /\ registered = FALSE
    /\ breakpoints = [p \in Paths |-> Absent]
    /\ shouldStop = TRUE
    /\ hasPassedStopOnEntry = FALSE
    /\ launch = NoLaunch
    /\ handlers = <<>>
    /\ nInvoked = 0
    /\ nWritten = 0
    /\ nResolved = 0
    /\ nCalls = 0
    /\ tracedOnce = FALSE
    /\ fx = <<>>
    /\ AnalyzerInit

NextDriver ==
    \/ Call
    \/ ctrlC
    \/ TaskStart
    \/ TaskResume
    \/ ChildText
    \/ ChildReply
    \/ ChildPromptTail
    \/ stop
    \/ OnClose

SpecDriver == InitDriver /\ [][NextDriver]_vars

\* The debug session: new PerlDebugSession(), no child yet.
Init ==
    /\ chain = <<>>
    /\ waitingResolvers = <<>>
    /\ buffer = <<>>
    /\ child = "none"
    /\ stdin = <<>>
    /\ banner = FALSE
    /\ dbline = {}
    /\ childHalf = FALSE
    /\ pos = 0
    /\ perlProcess = FALSE
    /\ registered = FALSE
    /\ breakpoints = [p \in Paths |-> Absent]
    /\ shouldStop = TRUE
    /\ hasPassedStopOnEntry = FALSE
    /\ launch = NoLaunch
    /\ handlers = <<>>
    /\ nInvoked = 0
    /\ nWritten = 0
    /\ nResolved = 0
    /\ nCalls = 0
    /\ tracedOnce = FALSE
    /\ fx = <<>>
    /\ AnalyzerInit

\* The session as a client drives it after `initialize`: launch, breakpoints,
\* stack traces and resuming, against a child that answers every command.
Next ==
    \/ launchRequest
    \/ GateTimeout
    \/ LaunchResume
    \/ continueRequest
    \/ nextRequest
    \/ setBreakPointsRequest
    \/ stackTraceRequest
    \/ HandlerResume
    \/ TaskStart
    \/ TaskResume
    \/ ChildReply
    \/ ChildPromptTail

Spec == Init /\ [][Next]_vars

\* A launched session and the requests that resume or inspect the debuggee.
NextResume ==
    \/ launchRequest
    \/ GateTimeout
    \/ LaunchResume
    \/ continueRequest
    \/ nextRequest
    \/ stepInRequest
    \/ stepOutRequest
    \/ restartRequest
    \/ variablesRequest
    \/ evaluateRequest
    \/ HandlerResume
    \/ TaskStart
    \/ TaskResume
    \/ ChildText
    \/ ChildReply
    \/ ChildPromptTail
    \/ OnClose

SpecResume == Init /\ [][NextResume]_vars

\* The launch sequence alone, with every way the child can print.
NextLaunch ==
    \/ initializeRequest
    \/ configurationDoneRequest
    \/ launchRequest
    \/ GateTimeout
    \/ LaunchResume
    \/ disconnectRequest
    \/ TaskStart
    \/ TaskResume
    \/ ChildText
    \/ ChildReply
    \/ ChildPromptTail
    \/ OnClose

SpecLaunch == Init /\ [][NextLaunch]_vars

\* Breakpoint requests of two lines, before and after the launch.
NextBreakpoints ==
    \/ launchRequest
    \/ GateTimeout
    \/ LaunchResume
    \/ setBreakPointsRequestPair
    \/ HandlerResume
    \/ TaskStart
    \/ TaskResume
    \/ ChildReply
    \/ ChildPromptTail

SpecBreakpoints == Init /\ [][NextBreakpoints]_vars

\* The Analyzer on its own: analyze, cleanup, save and load in any order.
NextIndex ==
    \/ Analyze
    \/ Cleanup
    \/ Save
    \/ Load

SpecIndex == Init /\ [][NextIndex]_vars

\* The Analyzer's trees: analyze, tree lookups and renames in any order.
NextTrees ==
    \/ Analyze
    \/ GetTree
    \/ Rename

SpecTrees == Init /\ [][NextTrees]_vars

\* The functions of the extractor, the import synthesis and the debugger's
\* variable views, each applied to one input.
NextFunctions ==
    \/ ExtractDeclaration
    \/ ImportFunction
    \/ ArrayValues
    \/ ArrayLength

SpecFunctions == Init /\ [][NextFunctions]_vars

\* The trees of the index: analyses, tree lookups and closes.
NextHeap ==
    \/ Analyze
    \/ GetTree
    \/ Cleanup

SpecHeap == Init /\ [][NextHeap]_vars

\* The language server: initialize, register, the document events, and the
\* workspace scan running in the background.
NextServer ==
    \/ ScanStart
    \/ register
    \/ didChangeContent
    \/ settingsReply
    \/ changeResume
    \/ didClose
    \/ ScanLoaded
    \/ ScanRead
    \/ ScanResume
    \/ ScanSave

SpecServer == Init /\ [][NextServer]_vars

\* The settings of the language server: the document events that look the
\* settings up, the client's answer, and the configuration notification.
NextSettings ==
    \/ ScanStart
    \/ register
    \/ didChangeContent
    \/ settingsReply
    \/ changeResume
    \/ didClose
    \/ didChangeConfiguration

SpecSettings == Init /\ [][NextSettings]_vars

\* The event loop runs a queued continuation and fires a due timer.
FairLaunch ==
    /\ SpecLaunch
    /\ WF_vars(GateTimeout)
    /\ WF_vars(LaunchResume)

\* The event loop runs every job that is due, the child's output is
\* delivered, and the callers go on calling while they may.
FairDriver ==
    /\ SpecDriver
    /\ WF_vars(NextDriver)

----------------------------------------------------------------------------
\* Properties of the driver.

Writes == {i \in 1..Len(fx) : fx[i].k = "write"}
Resolves == {i \in 1..Len(fx) : fx[i].k = "resolve"}

\* C1: at most one debugger command is in flight: the waiter queue never
\* holds more than one entry, at most one task waits for a prompt, and a
\* command is written only when no earlier command still waits (right after
\* a write the queue holds that command alone).
C1_SingleFlight ==
    /\ Len(waitingResolvers) <= 1
    /\ Cardinality({i \in 1..Len(chain) : chain[i].st = "waiting"}) <= 1
    /\ \A i \in Writes : waitingResolvers = <<fx[i].n>>

\* C1 witness: a command waits for its prompt while another operation,
\* called in the meantime, is held back behind it.
C1_Witness ==
    /\ Len(waitingResolvers) = 1
    /\ Len(chain) >= 2
    /\ chain[1].st = "waiting"
    /\ chain[2].st = "queued"

\* C2: commands are written in the order of the calls (the k-th write is
\* the k-th command handed to _sync), the k-th resolution is that of the
\* k-th written command, and a prompt detected while a command is pending
\* always resolves one (none is dropped or taken by a later command).
C2_LinearOrder ==
    /\ \A i \in Writes : fx[i].n = nWritten
    /\ \A i \in Resolves : fx[i].n = nResolved
    /\ nResolved <= nWritten /\ nWritten <= nInvoked
    /\ (Has(fx, PromptFx) /\ Resolves = {}) => nResolved = nInvoked

\* C2 witness: the second command of a two-command operation is resolved
\* while a later call still waits behind it on the lock.
C2_Witness ==
    /\ \E i \in Resolves : fx[i].n = 2
    /\ Len(chain) >= 2
    /\ chain[1].op = "deleteBreakpoints"
    /\ chain[2].st = "queued"

\* C3 (as claimed): whenever `c` or `R` is written, `continued` was
\* emitted earlier in the same task entry.
C3_ContinuedBeforeResume ==
    \A i \in Writes :
        fx[i].a \in {"c", "R"} => \E j \in 1..(i - 1) : fx[j] = EmitFx("continued")

----------------------------------------------------------------------------
\* Properties of the stop and termination notifications.

Sends(msg) == {i \in 1..Len(fx) : fx[i] = SendFx(msg)}
Stops == Sends("StoppedEvent:step") \cup Sends("StoppedEvent:breakpoint")

\* C4 (as claimed): a StoppedEvent is sent to the client only once the
\* ready prompt has been detected: in the job that sends it, the detection
\* of a prompt comes first.
C4_StoppedAfterPrompt ==
    \A i \in Stops : \E j \in 1..(i - 1) : fx[j] = PromptFx

\* C5 (as claimed): when the child closes, the driver emits `terminated`
\* and the facade sends a Terminated event.
C5_CloseTerminates ==
    Has(fx, StepFx("close")) =>
        /\ Has(fx, EmitFx("terminated"))
        /\ Has(fx, SendFx("TerminatedEvent"))

----------------------------------------------------------------------------
\* Properties of the launch sequence.

Initialized == SendFx("InitializedEvent")
Before(a, b) == Has(fx, a) /\ Has(fx, b) /\ Pos(fx, a) < Pos(fx, b)

\* C6 (as claimed): Initialized is not sent while handling `initialize`, and
\* the job that sends it ran, in this order: the wake-up from the gate, the
\* spawn, the registration of the listeners, the call of autoFlushStdOut,
\* the launch response, Initialized (once).
C6_LaunchOrderAsClaimed ==
    Has(fx, Initialized) =>
        /\ fx[1] = StepFx("launchRequest")
        /\ \E by \in {"notify", "timeout"} : Before(StepFx("gate:" \o by), StepFx("spawn"))
        /\ Before(StepFx("spawn"), StepFx("register"))
        /\ Before(StepFx("register"), StepFx("autoFlushStdOut"))
        /\ Before(StepFx("autoFlushStdOut"), SendFx("response:launch"))
        /\ Before(SendFx("response:launch"), Initialized)
        /\ Cardinality(Sends("InitializedEvent")) = 1

\* C6 (amended): Initialized is not sent while handling `initialize`, and
\* the job that sends it ran, in this order: the wake-up from the gate, the
\* spawn, the creation of the driver, the call of autoFlushStdOut, the
\* registration of the listeners, the launch response, Initialized (once).
\* The command of autoFlushStdOut is not yet written when Initialized is
\* sent: the call has only chained it on the lock.
C6_LaunchOrder ==
    Has(fx, Initialized) =>
        /\ fx[1] = StepFx("launchRequest")
        /\ \E by \in {"notify", "timeout"} : Before(StepFx("gate:" \o by), StepFx("spawn"))
        /\ Before(StepFx("spawn"), StepFx("new PerlProcess"))
        /\ Before(StepFx("new PerlProcess"), StepFx("autoFlushStdOut"))
        /\ Before(StepFx("autoFlushStdOut"), StepFx("register"))
        /\ Before(StepFx("register"), SendFx("response:launch"))
        /\ Before(SendFx("response:launch"), Initialized)
        /\ Cardinality(Sends("InitializedEvent")) = 1
        /\ Writes = {}
        /\ nWritten = 0
        /\ Len(chain) = 1 /\ chain[1].op = "autoFlushStdOut" /\ chain[1].st = "queued"

\* C6 witness: a launch has just sent Initialized; the session had
\* handled `initialize` or not, the gate was left by either way.
C6_Witness ==
    /\ Has(fx, Initialized)
    /\ launch.pc = "done"
    /\ child = "running"
    /\ registered

LaunchAnswered == Has(fx, SendFx("response:launch")) \/ Has(fx, NoProgram)

\* C7: a launch that waits on the configuration gate always leaves it, even
\* when no configurationDone arrives while it waits: it is then answered,
\* and with a program it spawns the child.
C7_LaunchProceeds ==
    /\ (launch.pc = "waiting") ~> LaunchAnswered
    /\ (launch.pc = "waiting" /\ launch.program) ~> Has(fx, StepFx("spawn"))

\* C7 witness: the launch left the gate by its timer, spawned the child and
\* answered the request.
C7_Witness ==
    /\ Has(fx, StepFx("gate:timeout"))
    /\ Has(fx, StepFx("spawn"))
    /\ Has(fx, SendFx("response:launch"))

\* C8: a launch without program, once past the gate, is answered with error
\* 1001 'No program specified to debug.'; that job spawns no child, creates
\* no driver, registers nothing and sends no Initialized.
C8_NoProgram ==
    [][(launch.pc = "woken" /\ ~launch.program /\ launch'.pc # "woken") =>
          /\ Has(fx', NoProgram)
          /\ ~Has(fx', StepFx("spawn"))
          /\ ~Has(fx', StepFx("new PerlProcess"))
          /\ ~Has(fx', Initialized)
          /\ ~Has(fx', SendFx("response:launch"))
          /\ child' = "none"
          /\ ~perlProcess'
          /\ ~registered'
          /\ chain' = <<>>]_vars

\* C8 witness: a launch without program has just been answered with the
\* error, and there is no child.
C8_Witness ==
    /\ Has(fx, NoProgram)
    /\ child = "none"
    /\ ~perlProcess

----------------------------------------------------------------------------
\* Properties of the stop-on-entry continue.

Tops == {i \in 1..Len(fx) : fx[i].k = "top"}
AutoContinue == Has(fx, StepFx("continue"))

\* C9 (as claimed): the automatic continue is issued only by the handler
\* of the first stackTrace request that asked the driver for the frames.
C9_OnlyFirstTrace ==
    AutoContinue => \E i \in Tops : fx[i].a = "first"

\* The line is not one recorded in the table for the path; so it is when
\* the table has no entry for the path.
NotRecorded(line, path) ==
    \/ ~breakpoints[path].has
    \/ \A i \in 1..Len(breakpoints[path].bps) : breakpoints[path].bps[i].line # line

\* C10 (as claimed): the first stackTrace handler of a launch with
\* stopOnEntry=false continues when the line of the top frame is not
\* recorded in the table for the file of the frame; after a launch with
\* stopOnEntry=true no handler continues.
C10_StopOnEntry ==
    /\ \A i \in Tops :
          (fx[i].a = "first" /\ ~launch.stopOnEntry /\ NotRecorded(fx[i].n, "a.pl"))
              => AutoContinue
    /\ launch.stopOnEntry => ~AutoContinue

----------------------------------------------------------------------------
\* Properties of the breakpoint requests.

RECURSIVE SubSeqOf(_, _)
\* a is b with some elements left out.
SubSeqOf(a, b) ==
    IF a = <<>> THEN TRUE
    ELSE IF b = <<>> THEN FALSE
    ELSE IF Head(a) = Head(b) THEN SubSeqOf(Tail(a), Tail(b))
    ELSE SubSeqOf(a, Tail(b))

NameLine(c) == [name |-> c.name, line |-> c.line]
IsDelete(c) == c.name = "B"
IsSet(c) == c.name = "b"
SetHandlers == {h \in 1..Len(handlers) : handlers[h].kind = "setBreakpoints"}

\* C11: of the commands written for one setBreakPoints request, no `B` comes
\* after a `b`; once a `b` is written, the `B` written before it are those of
\* every line the request had to delete, in the stored order; and the `b`
\* are written in the order of the lines of the request (a line has no `b`
\* only if there was no driver when its turn came).
C11_DeleteThenSet ==
    \A h \in SetHandlers :
        LET sent == handlers[h].sent
            dels == SelectSeq(sent, IsDelete)
            sets == SelectSeq(sent, IsSet)
            done == Len(handlers[h].acc) + (IF handlers[h].phase = "setting" THEN 1 ELSE 0)
        IN  /\ sent = dels \o sets
            /\ [i \in 1..Len(dels) |-> dels[i].line]
                   = SubSeq(handlers[h].del, 1, Len(dels))
            /\ sets # <<>> => Len(dels) = Len(handlers[h].del)
            /\ SubSeqOf([i \in 1..Len(sets) |-> sets[i].line],
                        SubSeq(handlers[h].req, 1, done))

\* C11 witness: a request for two lines, on a path with two stored lines,
\* has had its two `B` and then its two `b` written, the second `b` for
\* another line than the first.
C11_Witness ==
    \E h \in SetHandlers :
        LET sent == handlers[h].sent
        IN  /\ Len(sent) = 4
            /\ sent[1].name = "B" /\ sent[2].name = "B" /\ sent[1].line # sent[2].line
            /\ sent[3].name = "b" /\ sent[4].name = "b" /\ sent[3].line # sent[4].line
            /\ handlers[h].req = <<sent[3].line, sent[4].line>>

Stores == {i \in 1..Len(fx) : fx[i].k = "store"}

\* C12 (as claimed): when a setBreakPoints handler stores its list, the entry
\* of the path becomes one breakpoint per line of the request, in order; the
\* verdict of a line is drawn from the reply to its own `b` command (and is
\* verified=true when no `b` was sent); the response follows the store.
C12_StoredAsReplied ==
    [][\A i \in 1..Len(fx') :
          fx'[i].k = "store" =>
              LET h == handlers[fx'[i].n]
                  bps == breakpoints'[h.path].bps
              IN  /\ breakpoints'[h.path].has
                  /\ [j \in 1..Len(bps) |-> bps[j].line] = h.req
                  /\ \A j \in 1..Len(bps) :
                        IF bps[j].cmd = 0 THEN bps[j].verified
                        ELSE bps[j].from = <<bps[j].cmd>>
                  /\ i < Len(fx') /\ fx'[i + 1] = SendFx("response:setBreakpoints")]_vars

\* C13 (as claimed): a stackTrace handler never returns without having sent
\* the response.
C13_TraceAnswered ==
    (fx # <<>> /\ fx[1] \in {StepFx("stackTrace:trace"), StepFx("stackTrace:continuing")}
       /\ ~AutoContinue)
        => Has(fx, SendFx("response:stackTrace"))

----------------------------------------------------------------------------
\* Properties of the workspace index.

Range(f) == {f[x] : x \in DOMAIN f}

\* Every FunctionReference reachable from an index.
Reachable(ix) ==
    UNION {Range(ix.uriToFunctionDeclarations[u]) : u \in DOMAIN ix.uriToFunctionDeclarations}
    \cup UNION {UNION {Range(ix.uriToFunctionReferences[u].entries[n]) :
                         n \in DOMAIN ix.uriToFunctionReferences[u].entries} :
                  u \in DOMAIN ix.uriToFunctionReferences}

\* What an index holds for a uri, map by map ("none" where it has no entry).
Entry(m, u) == IF MapHas(m, u) THEN <<m[u]>> ELSE <<>>
Entries(ix, u) ==
    <<Entry(ix.uriToTree, u), Entry(ix.uriToVariableDeclarations, u),
      Entry(ix.uriToFunctionDeclarations, u), Entry(ix.uriToFunctionReferences, u)>>

\* C14: after cleanup(U), U is a key of none of the four maps, no
\* FunctionReference with uri U is reachable from the index, and what the
\* index holds for every other uri is unchanged.
C14_CleanupFrame ==
    [][\A U \in URIs :
          (fx' # <<>> /\ fx'[1].k = "cleanup" /\ fx'[1].a = U) =>
              /\ Entries(index', U) = <<<<>>, <<>>, <<>>, <<>>>>
              /\ \A r \in Reachable(index') : r.uri # U
              /\ \A V \in URIs \ {U} : Entries(index', V) = Entries(index, V)]_vars

\* C14 witness: a cleanup has removed a uri that had references, while
\* another uri keeps its declarations and references.
C14_Witness ==
    /\ fx # <<>> /\ fx[1].k = "cleanup" /\ fx[1].n = 1
    /\ \E V \in URIs \ {fx[1].a} :
          /\ MapHas(index.uriToFunctionDeclarations, V)
          /\ index.uriToFunctionDeclarations[V] # <<>>
          /\ MapHas(index.uriToFunctionReferences, V)
          /\ index.uriToFunctionReferences[V].entries # EmptyMap

\* C16 (as claimed): loading the file saved from the current index leaves
\* declarations and references as they are: same URIs, same names, same
\* lists, each references value still a Map.
C16_RoundTrip ==
    [][(fx' # <<>> /\ fx'[1].k = "load" /\ saved = SavedFile(index)) =>
          /\ index'.uriToFunctionDeclarations = index.uriToFunctionDeclarations
          /\ index'.uriToFunctionReferences = index.uriToFunctionReferences]_vars

TextOf(errors) == CHOOSE t \in Texts : t.errors = errors

\* C17: after analyze(U, content), the declarations and references held
\* for U are exactly those one pass over the content finds, whatever was
\* held before, and what the index holds for every other uri is unchanged.
C17_AnalyzeReplaces ==
    [][\A U \in URIs :
          (fx' # <<>> /\ fx'[1].k = "analyze" /\ fx'[1].a = U) =>
              LET text == TextOf(fx'[1].n)
              IN  /\ Entry(index'.uriToFunctionDeclarations, U)
                        = <<ExtractedDeclarations(U, text)>>
                  /\ Entry(index'.uriToFunctionReferences, U)
                        = <<ExtractedReferences(U, text)>>
                  /\ \A r \in Range(index'.uriToFunctionDeclarations[U]) : r.uri = U
                  /\ Len(index'.uriToFunctionDeclarations[U]) = Len(text.defs)
                  /\ \A V \in URIs \ {U} : Entries(index', V) = Entries(index, V)]_vars

\* C17 witness: a uri that held two declarations has been analyzed again
\* with a text that declares one function, while another uri is indexed.
C17_Witness ==
    /\ Len(fx) >= 4 /\ fx[1].k = "analyze" /\ fx[3].k = "had" /\ fx[3].n = 2
    /\ Len(index.uriToFunctionDeclarations[fx[1].a]) = 1
    /\ \E V \in URIs \ {fx[1].a} : MapHas(index.uriToFunctionDeclarations, V)

----------------------------------------------------------------------------
\* Properties of the language server.

\* C15: when the client closes the document U, the syntax tree and the
\* symbol entries the index holds for U are discarded.
C15_CloseDiscards ==
    [][\A U \in URIs :
          (fx' # <<>> /\ fx'[1].k = "didClose" /\ fx'[1].a = U) =>
              Entries(index', U) = <<<<>>, <<>>, <<>>, <<>>>>]_vars

\* The change handlers of a uri, and whether all of them have sent their
\* diagnostics.
JobsOf(U) == {id \in DOMAIN docs.jobs : docs.jobs[id].uri = U}
Handled(U) == \A id \in JobsOf(U) : docs.jobs[id].stage = "sent"

\* The index of a uri reflects a content: the cached tree, the
\* declarations and the references are those of the content.
Reflects(ix, U, text) ==
    /\ Entry(ix.uriToTree, U) = <<text>>
    /\ Entry(ix.uriToFunctionDeclarations, U) = <<ExtractedDeclarations(U, text)>>
    /\ Entry(ix.uriToFunctionReferences, U) = <<ExtractedReferences(U, text)>>

\* The diagnostics of the changes of one uri are published in the order of
\* the changes.
PublishedInOrder ==
    \A i, j \in DOMAIN docs.pubs :
        (i < j /\ docs.pubs[i].uri = docs.pubs[j].uri) => docs.pubs[i].id < docs.pubs[j].id

\* C18 (as claimed): the diagnostics of two changes of one uri are
\* published in the order of the changes, and once both are handled the
\* index of the uri reflects the content of the second, whatever the
\* workspace scan is doing.
C18_ChangesInOrder ==
    /\ PublishedInOrder
    /\ \A U \in URIs :
          (Cardinality(JobsOf(U)) >= 2 /\ Handled(U)) => Reflects(index, U, docs.text[U])

\* The scan has ended: analyzeFromWorkspace has returned and the save it
\* started, if any, is over.
ScanOver == scan.folders /\ scan.pc \in {"done", "returned"}

\* C19 (as claimed): when the read of a file fails during the scan (a
\* warning is logged), the scan ends with every other file handed to
\* analyze and with the index saved.
C19_ScanSurvives ==
    (ScanOver /\ scan.failed # {}) =>
        /\ \A f \in Range(scan.files) \ scan.failed : f \in scan.analyzed
        /\ saved.exists

\* C20: the scan publishes the diagnostics of a file only when the
\* cumulative count, that file included, is at most the cap; once the count
\* exceeds the cap collection is off and nothing more is published; the
\* total published by the scan never exceeds the cap.
C20_Cap ==
    [][/\ scan'.published <= MaxNumberOfProblems
       /\ (scan'.published # scan.published) =>
             /\ scan'.problemsCounter <= MaxNumberOfProblems
             /\ scan'.published = scan.published + scan.problems
       /\ (scan'.problemsCounter > MaxNumberOfProblems) => ~scan'.getProblems
       /\ (scan.problemsCounter > MaxNumberOfProblems) =>
             /\ scan'.published = scan.published
             /\ (scan'.analyzed # scan.analyzed /\ ~scan'.thrown) =>
                   /\ scan'.off = scan.off + 1
                   /\ scan'.problems = 0]_vars

\* C20 witness: the scan has published diagnostics up to the cap, the
\* count has exceeded the cap, and a later file was analyzed with
\* collection off.
C20_Witness ==
    /\ scan.published = MaxNumberOfProblems
    /\ scan.problemsCounter > MaxNumberOfProblems
    /\ scan.off >= 1
    /\ scan.pc = "done"

\* C21 (as claimed): a scan that began a work-done progress ends with
\* progress.done() called exactly once, after the last file was processed,
\* and with no report above 100% (the file counter never above the number
\* of files), whatever the number of files and whichever reads or analyses
\* failed.
C21_ProgressDone ==
    ScanOver =>
        /\ scan.dones = 1
        /\ scan.doneAt = Len(scan.files)
        /\ scan.fileCounter <= Len(scan.files)

\* C22 (as claimed): with caching 'eager' a uri gets a tree only when it is
\* analyzed in OnFileOpen mode: neither the analysis of the workspace scan
\* nor a tree lookup inserts one.
C22_TreesOfOpenOnly ==
    [][\A U \in URIs :
          (MapHas(index'.uriToTree, U) /\ ~MapHas(index.uriToTree, U)) =>
              /\ Len(fx') >= 4
              /\ fx'[1].k = "analyze" /\ fx'[1].a = U
              /\ fx'[4].k = "OnFileOpen"]_vars

\* The call sites and the declarations recorded for a name, and the edits
\* of a rename.
RecordedSites(ix, functionName) ==
    UNION {{<<"ref", U, r.row>> :
              r \in IF MapHas(ix.uriToFunctionReferences, U)
                       /\ MapHas(ix.uriToFunctionReferences[U].entries, functionName)
                    THEN Range(ix.uriToFunctionReferences[U].entries[functionName])
                    ELSE {}}
           \cup {<<"decl", U, d.row>> :
              d \in IF MapHas(ix.uriToFunctionDeclarations, U)
                    THEN {x \in Range(ix.uriToFunctionDeclarations[U]) :
                            x.functionName = functionName}
                    ELSE {}} : U \in URIs}
ReturnedEdits(effects) == {<<effects[i].k, effects[i].a, effects[i].n>> : i \in 2..Len(effects)}

\* C23 (as claimed): the edit a rename returns has one edit for every call
\* site recorded under the name and one for every declaration of the name,
\* in all uris.
C23_RenameComplete ==
    [][(fx' # <<>> /\ fx'[1].k = "rename") =>
          /\ ReturnedEdits(fx') = RecordedSites(index, fx'[1].a)
          /\ Len(fx') - 1 = Cardinality(RecordedSites(index, fx'[1].a))]_vars

\* C24 (as claimed): in every state, what the index holds for a uri under
\* declarations and references is what one analyze call on one content of
\* that uri produces, also after the saved index was loaded.
C24_OneAnalysis ==
    \A U \in DOMAIN index.uriToFunctionDeclarations
              \cup DOMAIN index.uriToFunctionReferences :
        \E text \in Texts :
            /\ Entry(index.uriToFunctionDeclarations, U) = <<ExtractedDeclarations(U, text)>>
            /\ Entry(index.uriToFunctionReferences, U) = <<ExtractedReferences(U, text)>>

\* The package in effect at a node: that of the last package_statement
\* before it whose block encloses the node, "" if there is none.
InEffect(tree, n) ==
    LET before == {j \in 1..(n - 1) : /\ tree[j].type = "package_statement"
                                      /\ tree[j].parent \in Ancestors(tree, n)}
    IN  IF before = {} THEN ""
        ELSE tree[CHOOSE j \in before : \A k \in before : k <= j].text

\* C25 (as claimed): the packageName recorded for a declaration is the
\* package in effect at the declaration, "" if there is none.
C25_PackageInEffect ==
    [][(fx' # <<>> /\ fx'[1].k = "declaration") =>
          fx'[2].a = InEffect(fx'[1].a, fx'[1].n)]_vars

\* C26 (as claimed): once the edit derived for a function was applied,
\* the edit derived again for the same function leaves the use statements
\* of the file as they are.
C26_ImportIdempotent ==
    [][(Len(fx') = 3 /\ fx'[1].k = "import" /\ fx'[3].k = "twice") =>
          fx'[3].a = fx'[2].a]_vars

\* C27 (as claimed): for a dump with k top-level entries between `(` and
\* `)`, the parser returns k values, the i-th being the text of entry i
\* followed by its own continuation lines and nothing else.
C27_ArrayValues ==
    [][(fx' # <<>> /\ fx'[1].k = "array") =>
          LET shape == fx'[1].a
          IN  fx'[2].a = [i \in 1..Len(shape) |->
                            <<<<i - 1, 0>>>> \o [j \in 1..shape[i] |-> <<i - 1, j>>]]]_vars

\* C28 (as claimed): the length shown for an array of a scope is its number
\* of top-level entries: the largest index plus one, 0 for an empty array.
C28_ArrayLength ==
    [][(fx' # <<>> /\ fx'[1].k = "list") => fx'[2].n = Len(fx'[1].a)]_vars

\* C29: when the client supports workspace/configuration, a
\* didChangeConfiguration notification leaves the settings cache empty, so
\* that the next lookup asks the client again.
C29_ConfigurationClears ==
    [][(fx' # <<>> /\ fx'[1].k = "didChangeConfiguration" /\ docs.capability)
          => docs'.settings = "unasked"]_vars

\* C30: a ctrlC call emits `paused` exactly once, whether the signal went
\* to the process group or, that failing, to the child; it writes nothing
\* to the child's stdin and leaves the waiting resolvers and the lock chain
\* as they were, so it completes at once even with a command in flight.
Count(tr, e) == Cardinality({i \in 1..Len(tr) : tr[i] = e})
C30_Pause ==
    [][(fx' # <<>> /\ fx'[1] = StepFx("ctrlC"))
          => /\ Count(fx', EmitFx("paused")) = 1
             /\ \A i \in 1..Len(fx') : fx'[i].k # "write"
             /\ stdin' = stdin
             /\ nWritten' = nWritten
             /\ waitingResolvers' = waitingResolvers
             /\ chain' = chain]_vars

\* A pause taken while a command waits for its prompt, the group signal
\* having failed.
C30_Witness ==
    /\ fx # <<>>
    /\ fx[1] = StepFx("ctrlC")
    /\ Fx("kill", "child", 0) \in Range(fx)
    /\ waitingResolvers # <<>>
    /\ \E i \in 1..Len(chain) : chain[i].st = "waiting"

\* C31: a stackTrace request with startFrame other than 0 is answered in
\* the same step, without frames, without a call of the driver (nothing
\* chained, nothing written) and with hasPassedStopOnEntry as it was; a
\* request with startFrame 0 is not answered at once, and with a driver it
\* chains a trace, the only operation that writes `T`.
C31_OtherPages ==
    [][(fx' # <<>> /\ fx'[1] = StepFx("stackTraceRequest"))
          => IF fx'[2].n # 0
             THEN /\ Count(fx', SendFx("response:stackTrace")) = 1
                  /\ \A i \in 1..Len(fx') : fx'[i].k \notin {"top", "write"}
                  /\ chain' = chain
                  /\ handlers' = handlers
                  /\ stdin' = stdin
                  /\ nWritten' = nWritten
                  /\ hasPassedStopOnEntry' = hasPassedStopOnEntry
             ELSE /\ Count(fx', SendFx("response:stackTrace")) = 0
                  /\ perlProcess => /\ Len(chain') = Len(chain) + 1
                                    /\ Last(chain').op = "trace"]_vars

\* A request for another page taken while the session is at its entry stop,
\* hasPassedStopOnEntry not yet set, a driver present.
C31_Witness ==
    /\ fx # <<>>
    /\ fx[1] = StepFx("stackTraceRequest")
    /\ fx[2].n # 0
    /\ perlProcess
    /\ ~hasPassedStopOnEntry
    /\ banner

\* C32: the output a command's promise resolves with is the reply of the
\* child to that command and to no other: a prompt printed before the
\* command was written (the banner's) resolves no command.
C32_OwnReply ==
    \A i \in 1..Len(chain) :
        chain[i].st = "ready" => chain[i].out.re = <<Head(chain[i].cmds).id>>

\* C33: when the child closes while commands wait for their prompt, the
\* waiting promises are settled in the end (and with them the operations
\* chained behind on the lock can run).
C33_ClosedSettles ==
    (fx # <<>> /\ fx[1] = StepFx("close") /\ waitingResolvers # <<>>)
        ~> (waitingResolvers = <<>>)

\* C34: a data event on which the buffer comes to end in a ready prompt
\* (the oldest waiter is then resolved) also emits `stopped`, the prompt
\* having come whole or in two chunks.
C34_StoppedWithPrompt ==
    [][(/\ fx' # <<>>
        /\ fx'[1].k = "data"
        /\ PromptFx \in Range(fx')
        /\ \E i \in 1..Len(fx') : fx'[i].k = "resolve")
          => EmitFx("stopped") \in Range(fx')]_vars

\* C35: the trees allocated and not freed are exactly the trees stored in
\* uriToTree.  Both are none at the start, so on every step the number of
\* stored trees changes by the trees the step allocates less those it
\* frees: a tree that is replaced or evicted is freed.
Stored(ix) == Cardinality(DOMAIN ix.uriToTree)
C35_TreesFreed ==
    [][Stored(index') - Stored(index)
         = Cardinality({i \in 1..Len(fx') : fx'[i].k \in {"parse", "copy"}})
           - Cardinality({i \in 1..Len(fx') : fx'[i].k = "delete"})]_vars

\* C36: a uri that has both a cached tree and declaration records has the
\* declarations of the content the tree was parsed from, however the
\* workspace scan and the document changes interleave.
C36_SameVersion ==
    \A U \in URIs :
        (MapHas(index.uriToTree, U) /\ MapHas(index.uriToFunctionDeclarations, U))
            => index.uriToFunctionDeclarations[U]
                 = ExtractedDeclarations(U, index.uriToTree[U])

\* C37: once the setBreakPoints requests have completed (no handler is
\* left, the lock chain is empty), the lines with a `b` written and no `B`
\* written since are the lines of the table stored for the path; this for
\* a table whose every line had its `b` sent.
TableLines(path) == {breakpoints[path].bps[j].line : j \in 1..Len(breakpoints[path].bps)}
C37_TableIsSet ==
    \A path \in Paths :
        (/\ handlers = <<>>
         /\ chain = <<>>
         /\ perlProcess
         /\ breakpoints[path].has
         /\ \A j \in 1..Len(breakpoints[path].bps) : breakpoints[path].bps[j].cmd # 0)
            => dbline = TableLines(path)

\* C38: a breakpoint is stored (and reported) as verified only if a `b`
\* command was sent for it and the output it resolved with does not say
\* `not breakable`; a request handled without a driver stores no verified
\* breakpoint.
C38_VerifiedWasSet ==
    [][\A i \in 1..Len(fx') :
          fx'[i].k = "store" =>
              LET bps == breakpoints'[handlers[fx'[i].n].path].bps
              IN  \A j \in 1..Len(bps) : bps[j].verified => bps[j].cmd # 0]_vars

\* C39: no two StoppedEvent('breakpoint') without a ContinuedEvent between
\* them.  shouldStop is TRUE at the start; a step sends the event at most
\* once, only with shouldStop TRUE, and leaves it FALSE; and shouldStop
\* comes back to TRUE only in a step that sends a ContinuedEvent.
C39_StoppedOncePerRun ==
    [][/\ Count(fx', SendFx("StoppedEvent:breakpoint")) <= 1
       /\ Has(fx', SendFx("StoppedEvent:breakpoint")) => (shouldStop /\ ~shouldStop')
       /\ (~shouldStop /\ shouldStop') => Has(fx', SendFx("ContinuedEvent"))]_vars

\* A prompt reported to the facade while the debuggee stays stopped: the
\* reply to a command that does not resume ends in a prompt, `stopped` is
\* emitted, and no event is sent.
C39_Witness ==
    /\ registered
    /\ ~shouldStop
    /\ Has(fx, EmitFx("stopped"))
    /\ Has(fx, PromptFx)
    /\ \E i \in 1..Len(fx) : fx[i].k = "resolve"
    /\ ~Has(fx, SendFx("StoppedEvent:breakpoint"))

====
